---- MODULE Spec2Model ----
(***************************************************************************)
(* A model of the PyElk protocol runtime (src/PyElk/Elk.py and             *)
(* src/PyElk/Connection/__init__.py): the inbound queue and its            *)
(* dispatcher, the outbound queue and its writer thread, the ElkRP pause   *)
(* and the rescan thread.                                                  *)
(*                                                                         *)
(* Threads are modelled by a program counter each; a step of a thread is   *)
(* the code between two points where another thread can observe or change  *)
(* what it works on.  Time is kept relative: an outbound event's `time` is *)
(* the number of ticks left until time.time() reaches it (0 = due).        *)
(***************************************************************************)
EXTENDS Integers, Sequences, FiniteSets, TLC

\* ------------------------------------------------------------------ bounds
MaxFrames == 2      \* inbound frames the panel sends in one run
MaxCmds == 2        \* commands the application issues in one run
MaxRetries == 1     \* largest retry budget the application puts on a command
ClassCount == 1     \* entities per class in the model (the panel has 8..256)
MaxPayload == 2     \* characters in the payload of an event under the codec
ZoneCount == 2      \* zones in the model (ZONE_MAX_COUNT is 208)
AreaCount == 2      \* areas in the model (AREA_MAX_COUNT is 8)
KeypadCount == 2    \* keypads in the model (KEYPAD_MAX_COUNT is 16)
MaxClock == 26      \* the last instant, in tenths of a second, at which a frame arrives
DescMax == 8        \* ZONE_MAX_COUNT of the description loop: zones 1..DescMax
X10Count == 256     \* X10 devices (X10_MAX_COUNT: 16 house codes of 16 units)
ThermostatCount == 2 \* thermostats in the model (THERMOSTAT_MAX_COUNT is 16)
RetryBudget == 2     \* largest retry count of the retry-budget specification
IncludeMax == 4     \* entities of the class whose include and exclude lists are read
SettingCount == 20  \* custom settings of the panel (SETTING_MAX_COUNT)
NodeCount == 3      \* entities per class list in the construction model
MaxIssued == 2      \* commands issued by entities in one behaviour

\* ------------------------------------------------------- program constants
DefaultRetryDelay == 1   \* Event._retry_delay
DelayIncrement == 2      \* Thermostat._set_thermostat(delay_increment=2)
OmniRetries == 5         \* Thermostat.request_omni_register: event.retries
OmniRetryDelay == 3      \* Thermostat.request_omni_register: event.retry_delay

STATE_DISCONNECTED == "Disconnected"
STATE_CONNECTING == "Connecting"
STATE_RUNNING == "Running"
STATE_PAUSED == "Paused"
ElkStates == {STATE_DISCONNECTED, STATE_CONNECTING, STATE_RUNNING, STATE_PAUSED}

\* Scanner.STATE_SCAN_* and Scanner.SCAN_NEXT
ScanStates ==
  {"Idle", "Start", "Zones", "Outputs", "Areas", "Keypads", "Tasks",
   "Thermostats", "X10", "Users", "Counters", "Settings", "Version"}

SCAN_NEXT_Skip ==
  [s \in ScanStates |->
     CASE s = "Idle" -> "Start"
       [] s = "Start" -> "Zones"
       [] s = "Zones" -> "Areas"
       [] s = "Outputs" -> "Areas"
       [] s = "Areas" -> "Keypads"
       [] s = "Keypads" -> "Tasks"
       [] s = "Tasks" -> "Thermostats"
       [] s = "Thermostats" -> "X10"
       [] s = "X10" -> "Users"
       [] s = "Users" -> "Counters"
       [] s = "Counters" -> "Settings"
       [] s = "Settings" -> "Version"
       [] s = "Version" -> "Idle"]

SCAN_NEXT ==
  [s \in ScanStates |->
     CASE s = "Idle" -> "Start"
       [] s = "Start" -> "Zones"
       [] s = "Zones" -> "Outputs"
       [] s = "Outputs" -> "Areas"
       [] s = "Areas" -> "Keypads"
       [] s = "Keypads" -> "Tasks"
       [] s = "Tasks" -> "Thermostats"
       [] s = "Thermostats" -> "X10"
       [] s = "X10" -> "Users"
       [] s = "Users" -> "Counters"
       [] s = "Counters" -> "Settings"
       [] s = "Settings" -> "Version"
       [] s = "Version" -> "Idle"]

\* Elk.py EVENT_LIST_AUTO_PROCESS, by two-character tag
EVENT_LIST_AUTO_PROCESS ==
  {"AZ", "AM", "AS", "CV", "EE", "XK", "RP", "IE", "KA", "KC", "T2", "CS",
   "CC", "PC", "RR", "PS", "TC", "ST", "TR", "SS", "IC", "CR", "VN", "ZD",
   "ZP", "ZS", "ZC"}

\* a blacklist that names the zone status report only
RESCAN_BLACKLIST_ZS == {"ZS"}

\* Elk.py EVENT_LIST_RESCAN_BLACKLIST
EVENT_LIST_RESCAN_BLACKLIST == {"ZD", "ZS"}

\* Frame kinds whose dispatch updates the zone entities
ZoneFrameTypes == {"ZS", "ZD", "ZC"}

\* ------------------------------------------------------------ Event codec
\* ord(ch) for the characters "0" (48) .. "z" (122)
AsciiFrom48 ==
  <<"0", "1", "2", "3", "4", "5", "6", "7", "8", "9", ":", ";", "<", "=", ">",
    "?", "@", "A", "B", "C", "D", "E", "F", "G", "H", "I", "J", "K", "L", "M",
    "N", "O", "P", "Q", "R", "S", "T", "U", "V", "W", "X", "Y", "Z", "[",
    "backslash", "]", "^", "_", "backtick", "a", "b", "c", "d", "e", "f", "g", "h", "i", "j", "k",
    "l", "m", "n", "o", "p", "q", "r", "s", "t", "u", "v", "w", "x", "y", "z">>

Ord(ch) == 47 + (CHOOSE i \in 1..Len(AsciiFrom48) : AsciiFrom48[i] = ch)

HexDigits ==
  <<"0", "1", "2", "3", "4", "5", "6", "7", "8", "9", "A", "B", "C", "D", "E", "F">>

\* format(n, 'x').upper(): as many digits as n needs
RECURSIVE FormatHex(_)
FormatHex(n) ==
  IF n < 16 THEN <<HexDigits[n + 1]>>
  ELSE Append(FormatHex(n \div 16), HexDigits[(n % 16) + 1])

\* format(n, '02x').upper(): padded to two digits, never truncated
Format02X(n) == IF n < 16 THEN <<"0">> \o FormatHex(n) ELSE FormatHex(n)

RECURSIVE SumOrd(_)
SumOrd(d) == IF d = <<>> THEN 0 ELSE Ord(Head(d)) + SumOrd(Tail(d))

\* x ^ 255 for x in 0..255
Xor255(x) == 255 - x

\* Event.checksum_generate(data)
ChecksumGenerate(d) == Format02X(Xor255(SumOrd(d) % 256) + 1)

\* data[i:j] with Python's rules for negative and out-of-range indices
PySlice(d, i, j) ==
  LET n == Len(d)
      norm(k) == IF k < 0 THEN (IF n + k < 0 THEN 0 ELSE n + k)
                 ELSE IF k > n THEN n ELSE k
  IN SubSeq(d, norm(i) + 1, norm(j))

\* Event.__init__ followed by the assignment of a type and of a payload,
\* through data_str or through the list data
NewEvent(t, payload, asList) ==
  [len |-> <<>>, type |-> t,
   data |-> IF asList THEN payload ELSE <<>>,
   data_str |-> IF asList THEN <<>> ELSE payload,
   reserved |-> <<"0", "0">>, checksum |-> <<>>]

\* Event.to_string: the event with _data_str, _len and _checksum assigned
ToStringEvent(e) ==
  LET ds == IF e.data_str = <<>> /\ e.data # <<>> THEN e.data ELSE e.data_str
      event_str == e.type \o ds \o e.reserved
      ln == Format02X(Len(event_str) + 2)
  IN [e EXCEPT !.data_str = ds, !.len = ln,
               !.checksum = ChecksumGenerate(ln \o event_str)]

\* Event.to_string: the returned string
EventToString(e) ==
  LET t == ToStringEvent(e) IN t.len \o t.type \o t.data_str \o t.reserved \o t.checksum

\* Event.parse(data) on a fresh Event
Parse(d) ==
  LET type == PySlice(d, 2, 4)
      end_padding == IF type = <<"A", "M">> THEN 2 ELSE 4
      ds == IF Len(d) > 8 THEN PySlice(d, 4, 0 - end_padding) ELSE <<>>
  IN [len |-> PySlice(d, 0, 2), type |-> type, data |-> ds, data_str |-> ds,
      reserved |-> IF end_padding > 2 THEN PySlice(d, 0 - end_padding, -2) ELSE <<>>,
      checksum |-> PySlice(d, -2, Len(d))]

\* Event.checksum_check
ChecksumCheck(e) ==
  ChecksumGenerate(e.len \o e.type \o e.data_str \o e.reserved) = e.checksum

\* The payload an event carries
Payload(e) == IF e.data_str = <<>> THEN e.data ELSE e.data_str

\* The tag of a frame as the characters an expect string would spell it with
TypeChars(t) ==
  CASE t = "AS" -> <<"A", "S">>
    [] t = "T2" -> <<"T", "2">>
    [] t = "RP" -> <<"R", "P">>
    [] t = "IE" -> <<"I", "E">>
    [] t = "ZS" -> <<"Z", "S">>
    [] t = "ZD" -> <<"Z", "D">>
    [] t = "ZC" -> <<"Z", "C">>
    [] t = "SD" -> <<"S", "D">>
    [] OTHER -> <<t>>

\* ------------------------------------------------------------------ inputs
\* An inbound frame after Event.parse: its tag and (the start of) its payload.
\* The panel computes the checksum over length, tag, payload and the reserved
\* "00".
Frame(t, d) ==
  LET body == Format02X(Len(d) + 6) \o TypeChars(t) \o d \o <<"0", "0">>
  IN [type |-> t, data |-> d, checksum |-> ChecksumGenerate(body)]

\* The same frame damaged on the line: its checksum field is off by one digit
BadFrame(t, d) ==
  LET f == Frame(t, d)
  IN [f EXCEPT !.checksum = <<f.checksum[1], IF f.checksum[2] = "0" THEN "1" ELSE "0">>]

\* The Event that Event.parse makes of the frame
FrameEvent(f) ==
  [len |-> Format02X(Len(f.data) + 6), type |-> TypeChars(f.type), data |-> f.data,
   data_str |-> f.data, reserved |-> <<"0", "0">>, checksum |-> f.checksum]

RPFrames == {Frame("RP", <<"0">>), Frame("RP", <<"1">>), Frame("RP", <<"2">>)}

\* Frames the panel sends in the outbound-queue specification: ElkRP status,
\* an arming status report (payload starts with the area status digits) and
\* an Omnistat2 reply (payload starts with the device number + 0x80), and
\* that reply damaged on the line.
OutFrames ==
  RPFrames \cup {Frame("AS", <<"1", "0">>), Frame("T2", <<"8", "1">>),
                 BadFrame("T2", <<"8", "1">>)}

\* Commands the application issues: a plain request, a delayed thermostat
\* set, a request that expects an arming status report, and an Omnistat2
\* register request whose expect is the start of the reply's payload.
CmdTemplates ==
  {[type |-> "cs", delay |-> 0, retries |-> 0, expect |-> <<>>],
   [type |-> "ts", delay |-> DelayIncrement, retries |-> 0, expect |-> <<>>],
   [type |-> "as", delay |-> 0, retries |-> MaxRetries, expect |-> <<"A", "S">>],
   [type |-> "t2", delay |-> 0, retries |-> MaxRetries, expect |-> <<"8", "1">>]}

\* format(n, '03') and int(str), over the digits
Digits == <<"0", "1", "2", "3", "4", "5", "6", "7", "8", "9">>

Format03(n) ==
  <<Digits[((n \div 100) % 10) + 1], Digits[((n \div 10) % 10) + 1], Digits[(n % 10) + 1]>>

DigitValue(ch) == (CHOOSE i \in 1..10 : Digits[i] = ch) - 1

RECURSIVE ParseInt(_)
ParseInt(d) ==
  IF d = <<>> THEN 0
  ELSE 10 * ParseInt(SubSeq(d, 1, Len(d) - 1)) + DigitValue(d[Len(d)])

\* Event.DESCRIPTION_*: the two-digit description type of each entity class
DescriptionType ==
  [c \in {"zone", "area", "user", "keypad", "output", "task", "x10", "setting",
          "counter", "thermostat"} |->
     CASE c = "zone" -> <<"0", "0">>
       [] c = "area" -> <<"0", "1">>
       [] c = "user" -> <<"0", "2">>
       [] c = "keypad" -> <<"0", "3">>
       [] c = "output" -> <<"0", "4">>
       [] c = "task" -> <<"0", "5">>
       [] c = "x10" -> <<"0", "7">>
       [] c = "setting" -> <<"0", "9">>
       [] c = "counter" -> <<"1", "0">>
       [] c = "thermostat" -> <<"1", "1">>]

\* An SD reply: description type, entity number, (name left out)
SDFrame(c, n) == Frame("SD", DescriptionType[c] \o Format03(n))

\* Frames the panel sends in the rescan specification
ScanFrames ==
  {Frame("IE", <<>>), Frame("RP", <<"1">>), Frame("RP", <<"0">>),
   Frame("ZS", <<"1">>), Frame("ZD", <<"1">>), Frame("ZC", <<"0", "0", "1", "1">>),
   SDFrame("area", 1)}
    \cup {SDFrame("zone", n) : n \in 0..ClassCount}

\* Frames of a panel that answers none of the scanner's requests
NoReplyFrames == {Frame("IE", <<>>), Frame("ZC", <<"0", "0", "1", "1">>)}


\* ------------------------------------------------------------------- state
VARIABLES
  status,             \* Elk._status
  elk_state,          \* Elk.state, the attribute Scanner.run assigns
  unpaused_status,    \* Elk._unpaused_status
  connected,          \* Elk._connection is a live Connection
  elkrp_connected,    \* Connection._elkrp_connected
  update_in_progress, \* Elk._update_in_progress
  frames,             \* every frame received so far; a frame's id is its index
  stale,              \* ids of frames older than 120 s
  queue_incoming,     \* Elk._queue_incoming_elk_events (frame ids)
  events,             \* every outbound Event created so far; id = index
  queue_outgoing,     \* Elk._queue_outgoing_elk_events (event ids)
  wire,               \* event ids passed to write_line, in order
  applied,            \* frame ids whose data was unpacked into the zones, in order
  reader,             \* reader thread: handle_line -> elk_event_enqueue -> update
  writer,             \* SerialOutputHandler.run
  out_event,          \* SerialOutputHandler._event
  app,                \* an application thread inside elk_event_send
  scan_state,         \* Scanner._state
  scan_event,         \* Scanner._event
  scanner,            \* Scanner.run
  included,           \* per class, the included entity numbers
  description,        \* per class, the entity numbers whose description is set
  hist,               \* history of the run, read only by the properties
  codec,              \* an Event under Event.to_string / Event.parse / checksum_generate
  zones,              \* Elk.ZONES: per zone, the fields of the Zone object
  member_zone,        \* Elk.AREAS[a].member_zone[z]
  zlast,              \* the last frame unpacked into the zones, if ZS or ZC (history)
  zfired,             \* the last dispatched frame's callbacks that came without a change, and changes without a callback
  areas,              \* Elk.AREAS: per area, fields of the Area object
  keypads,            \* Elk.KEYPADS: per keypad, fields of the Keypad object
  member_keypad,      \* Elk.AREAS[a].member_keypad[k]
  now,                \* time.time() when the next frame is parsed, in tenths of a second
  unpack_raised,      \* an unpack handler raised: the dispatching thread has ended
  alast,              \* the last IC and AS frames dispatched (history)
  walk,               \* scan_zones in its description loop, and the panel it asks
  x10,                \* Elk.X10: per device index, fields of the X10 object
  xlast,              \* the last PS frame dispatched and the devices before it (history)
  ktemp,              \* Elk.KEYPADS: per keypad, _temp and _temp_enabled
  therm,              \* Elk.THERMOSTATS: per thermostat, _temp
  stlast,             \* the last ST frame dispatched (history)
  snapshot,           \* a model constructed afresh and loaded from the saved state
  incl,               \* the include/exclude configuration of a class and the entities included
  stopping,           \* SerialOutputHandler._stopping
  mut,                \* per thread, where it is in a dispatch pass or in scan_zones
  nodes,              \* the entity lists Elk.__init__ builds, and the commands issued
  settings            \* the custom settings, and the last CR reply dispatched

\* the runtime: connection, queues, reader, writer, scanner
runtimeVars ==
  <<status, elk_state, unpaused_status, connected, elkrp_connected,
    update_in_progress, frames, stale, queue_incoming, events, queue_outgoing,
    wire, applied, reader, writer, out_event, app, scan_state, scan_event,
    scanner, included, description, hist>>

\* the entities and the codec
codecVars == <<codec>>
zoneVars == <<zones, member_zone, zlast, zfired>>
armVars == <<areas, keypads, member_keypad, now, unpack_raised, alast>>
walkVars == <<walk>>
x10Vars == <<x10, xlast>>
tempVars == <<ktemp, therm, stlast>>
snapVars == <<snapshot>>
inclVars == <<incl>>
stopVars == <<stopping>>
mutVars == <<mut>>
nodeVars == <<nodes>>
settingVars == <<settings>>
entVars == <<codecVars, zoneVars, armVars, walkVars, x10Vars, tempVars, snapVars, inclVars, stopVars, mutVars, nodeVars, settingVars>>

\* what the codec and the zone handlers leave alone
outsideCodec == <<runtimeVars, zoneVars, armVars, walkVars, x10Vars, tempVars, snapVars, inclVars, stopVars, mutVars, nodeVars, settingVars>>
outsideZones == <<runtimeVars, codecVars, armVars, walkVars, x10Vars, tempVars, snapVars, inclVars, stopVars, mutVars, nodeVars, settingVars>>
outsideArming == <<runtimeVars, codecVars, zoneVars, walkVars, x10Vars, tempVars, snapVars, inclVars, stopVars, mutVars, nodeVars, settingVars>>
outsideWalk == <<runtimeVars, codecVars, zoneVars, armVars, x10Vars, tempVars, snapVars, inclVars, stopVars, mutVars, nodeVars, settingVars>>
outsideX10 == <<runtimeVars, codecVars, zoneVars, armVars, walkVars, tempVars, snapVars, inclVars, stopVars, mutVars, nodeVars, settingVars>>
outsideSnapshot ==
  <<runtimeVars, codecVars, zoneVars, armVars, walkVars, x10Vars, tempVars, inclVars, stopVars, mutVars, nodeVars, settingVars>>
outsideIncl ==
  <<runtimeVars, codecVars, zoneVars, armVars, walkVars, x10Vars, tempVars, snapVars,
    stopVars, mutVars, nodeVars, settingVars>>
outsideMut ==
  <<codecVars, zoneVars, armVars, walkVars, x10Vars, tempVars, snapVars, inclVars,
    stopVars, nodeVars, settingVars>>
outsideNodes ==
  <<codecVars, zoneVars, armVars, walkVars, x10Vars, tempVars,
    snapVars, inclVars, stopVars, mutVars, settingVars>>
outsideSettings ==
  <<codecVars, zoneVars, armVars, walkVars, x10Vars, tempVars,
    snapVars, inclVars, stopVars, mutVars, nodeVars>>
runtimeButGuard ==
  <<status, elk_state, unpaused_status, connected, elkrp_connected, frames, stale,
    queue_incoming, events, queue_outgoing, wire, applied, reader, writer,
    out_event, app, scan_state, scan_event, scanner, included, description, hist>>

vars == <<runtimeVars, entVars>>

elkVars == <<status, unpaused_status, elkrp_connected>>
scanVars == <<scan_state, scanner, included, description, elk_state>>
writerVars == <<writer, out_event, wire>>

\* --------------------------------------------------------------- helpers
Range(s) == {s[i] : i \in 1..Len(s)}

Contains(s, x) == \E i \in 1..Len(s) : s[i] = x

\* deque.remove(x): drops the first occurrence of x
Remove(s, x) ==
  LET i == CHOOSE j \in 1..Len(s) : s[j] = x /\ \A k \in 1..(j - 1) : s[k] # x
  IN SubSeq(s, 1, i - 1) \o SubSeq(s, i + 1, Len(s))

\* str[0:n]
Prefix(d, n) == SubSeq(d, 1, IF n < Len(d) THEN n ELSE Len(d))

Count(s, x) == Cardinality({i \in 1..Len(s) : s[i] = x})

FirstIndex(s, x) == CHOOSE i \in 1..Len(s) : s[i] = x /\ \A k \in 1..(i - 1) : s[k] # x

Classes ==
  {"zone", "output", "area", "keypad", "task", "thermostat", "x10", "user",
   "counter", "setting"}

\* ---------------------------------------------- Event codec, as actions
\* Message kinds and payload characters of the codec specification
CodecTypes == {<<"c", "s">>, <<"a", "s">>, <<"A", "M">>, <<"Z", "C">>}
CodecChars == {"0", "1", "2"}

RECURSIVE Strings(_, _)
Strings(chars, n) ==
  IF n = 0 THEN {<<>>}
  ELSE LET shorter == Strings(chars, n - 1)
       IN shorter \cup {Append(w, ch) : w \in {x \in shorter : Len(x) = n - 1}, ch \in chars}

Messages ==
  {NewEvent(t, d, l) : t \in CodecTypes, d \in Strings(CodecChars, MaxPayload), l \in BOOLEAN}

NoEvent == NewEvent(<<>>, <<>>, FALSE)

CodecIdle == [stage |-> "idle", event |-> NoEvent, line |-> <<>>, back |-> NoEvent]

\* An application builds an event
InitCodec ==
  codec \in {[stage |-> "made", event |-> m, line |-> <<>>, back |-> NoEvent] : m \in Messages}

\* Event.to_string
CodecToString ==
  /\ codec.stage = "made"
  /\ codec' = [codec EXCEPT !.stage = "sent", !.event = ToStringEvent(codec.event),
                            !.line = EventToString(codec.event)]
  /\ UNCHANGED outsideCodec

\* Event.parse of the string, on a fresh Event
CodecParse ==
  /\ codec.stage = "sent"
  /\ codec' = [codec EXCEPT !.stage = "parsed", !.back = Parse(codec.line)]
  /\ UNCHANGED outsideCodec

\* ------------------------------------------------------------------ Zone
\* Python's None, for fields whose values are numbers
None == -1

STATE_UNCONFIGURED == 0
DEFINITION_DISABLED == 0
STATUS_BYPASSED == 3

Zones == 1..ZoneCount
Areas == 1..AreaCount

\* Zone.__init__ (Node.__init__ first); zone number n has _index n - 1
NewZone ==
  [state |-> None, status |-> None, definition |-> None, alarm |-> None,
   temp |-> -460, area |-> None, enabled |-> FALSE]

\* Event.data_dehex when every value above 9 is taken as it is
DataDehexFake(data, fake) == [i \in 1..Len(data) |-> Ord(data[i]) - Ord("0")]

\* Event.data_dehex(fake)
DataDehex(data, fake) ==
  [i \in 1..Len(data) |->
     LET v == Ord(data[i]) - Ord("0")
     IN IF ~fake /\ v > 9 THEN v - 7 ELSE v]

\* Zone._check_enabled without its test for None
CheckEnabledKnown(z) ==
  [z EXCEPT !.enabled = ~(z.state = STATE_UNCONFIGURED /\ z.definition = DEFINITION_DISABLED)]

\* Zone._check_enabled
CheckEnabled(z) ==
  LET first == ~(z.state = STATE_UNCONFIGURED /\ z.definition = DEFINITION_DISABLED)
  IN [z EXCEPT !.enabled =
        IF z.state = None \/ z.definition = None \/ z.alarm = None THEN FALSE ELSE first]

\* Zone.unpack_event_alarm_zone, for the zone of number n
UnpackEventAlarmZone(z, n, data) ==
  LET d == DataDehex(data, TRUE)[n]
  IN IF z.alarm = d THEN z ELSE CheckEnabled([z EXCEPT !.alarm = d])

\* Zone.unpack_event_zone_definition
UnpackEventZoneDefinition(z, n, data) ==
  LET d == DataDehex(data, TRUE)[n]
  IN IF z.definition = d THEN z ELSE CheckEnabled([z EXCEPT !.definition = d])

\* data & 0b11 and (data & 0b1100) >> 2
NibbleState(d) == d % 4
NibbleStatus(d) == (d \div 4) % 4

\* Zone.unpack_event_zone_status_report
UnpackEventZoneStatusReport(z, n, data) ==
  LET d == DataDehex(data, FALSE)[n]
  IN IF z.state = NibbleState(d) /\ z.status = NibbleStatus(d) THEN z
     ELSE CheckEnabled([z EXCEPT !.state = NibbleState(d), !.status = NibbleStatus(d)])

\* Zone.unpack_event_zone_update
UnpackEventZoneUpdate(z, data) ==
  LET d == DataDehex(data, FALSE)[4]
  IN IF z.state = NibbleState(d) /\ z.status = NibbleStatus(d) THEN z
     ELSE CheckEnabled([z EXCEPT !.state = NibbleState(d), !.status = NibbleStatus(d)])

\* Zone.unpack_event_temp_request_reply
UnpackEventTempRequestReply(z, data) ==
  CheckEnabled([z EXCEPT !.temp = ParseInt(SubSeq(data, 4, 6)) - 60])

\* Zone.unpack_event_zone_partition: the zone
UnpackEventZonePartition(z, n, data) ==
  CheckEnabled([z EXCEPT !.area = DataDehex(data, TRUE)[n]])

\* Zone.unpack_event_zone_partition, zone n: every area's entry for the zone
\* is cleared, then the entry of the zone's area is set
PartitionMembers(mz, n, data) ==
  LET a == DataDehex(data, TRUE)[n]
  IN [x \in Areas |-> [mz[x] EXCEPT ![n] = (a > 0 /\ x = a)]]

\* Node.state_load then Zone.state_load: the zone.  A saved value that is not
\* of the setter's type (None for area, for enabled) is not assigned.
ZoneStateLoad(z, saved) ==
  CheckEnabled([z EXCEPT
    !.area = IF saved.area # None THEN saved.area ELSE @,
    !.enabled = saved.enabled,
    !.status = saved.status,
    !.state = saved.state,
    !.definition = saved.definition,
    !.alarm = saved.alarm,
    !.temp = saved.temp])

\* Zone.state_load, zone n: the entry of the zone's area is set, none is cleared
LoadMembers(mz, n, z) ==
  IF z.area # None /\ z.area > 0
    THEN [mz EXCEPT ![z.area] = [@ EXCEPT ![n] = TRUE]]
    ELSE mz

ZNoFrame == [kind |-> "none", data |-> <<>>]

\* No callback has been called
NoCallbacks == [unchanged |-> {}, silent |-> {}]

\* What the callbacks of a dispatched frame told the application: the zones
\* called back though the frame changed none of their fields nor their
\* membership of an area (unchanged), and the zones changed without a call
\* (silent).  `called` are the zones whose handler reached self._callback().
Callbacks(called, after, mz_after) ==
  LET changed == {n \in Zones :
                    \/ after[n] # zones[n]
                    \/ \E a \in Areas : mz_after[a][n] # member_zone[a][n]}
  IN [unchanged |-> called \ changed, silent |-> changed \ called]

\* The zones whose handler reached self._callback(), for a handler that
\* returns early when the values it parsed are the ones the zone has
CalledAfterTest(after) == {n \in Zones : after[n] # zones[n]}

\* elk_queue_process, EVENT_ZONE_STATUS_REPORT: every zone unpacks the frame
DispatchZS(data) ==
  /\ zones' = [n \in Zones |-> UnpackEventZoneStatusReport(zones[n], n, data)]
  /\ zlast' = [kind |-> "ZS", data |-> data]
  /\ zfired' = LET after == [n \in Zones |-> UnpackEventZoneStatusReport(zones[n], n, data)]
               IN Callbacks(CalledAfterTest(after), after, member_zone)
  /\ UNCHANGED <<outsideZones, member_zone>>

\* elk_queue_process, EVENT_ZONE_UPDATE: the zone named by the first three
\* digits unpacks the frame
DispatchZC(data) ==
  LET n == ParseInt(SubSeq(data, 1, 3))
  IN /\ n \in Zones
     /\ zones' = [zones EXCEPT ![n] = UnpackEventZoneUpdate(@, data)]
     /\ zlast' = [kind |-> "ZC", data |-> data]
     /\ zfired' = LET after == [zones EXCEPT ![n] = UnpackEventZoneUpdate(@, data)]
                  IN Callbacks(CalledAfterTest(after), after, member_zone)
     /\ UNCHANGED <<outsideZones, member_zone>>

\* elk_queue_process, EVENT_ZONE_DEFINITION_REPLY
DispatchZD(data) ==
  /\ zones' = [n \in Zones |-> UnpackEventZoneDefinition(zones[n], n, data)]
  /\ zlast' = ZNoFrame
  /\ zfired' = LET after == [n \in Zones |-> UnpackEventZoneDefinition(zones[n], n, data)]
               IN Callbacks(CalledAfterTest(after), after, member_zone)
  /\ UNCHANGED <<outsideZones, member_zone>>

\* elk_queue_process, EVENT_ALARM_ZONE_REPORT
DispatchAZ(data) ==
  /\ zones' = [n \in Zones |-> UnpackEventAlarmZone(zones[n], n, data)]
  /\ zlast' = ZNoFrame
  /\ zfired' = LET after == [n \in Zones |-> UnpackEventAlarmZone(zones[n], n, data)]
               IN Callbacks(CalledAfterTest(after), after, member_zone)
  /\ UNCHANGED <<outsideZones, member_zone>>

RECURSIVE PartitionAll(_, _, _)
PartitionAll(mz, n, data) ==
  IF n > ZoneCount THEN mz ELSE PartitionAll(PartitionMembers(mz, n, data), n + 1, data)

\* elk_queue_process, EVENT_ZONE_PARTITION_REPORT
DispatchZP(data) ==
  /\ zones' = [n \in Zones |-> UnpackEventZonePartition(zones[n], n, data)]
  /\ member_zone' = PartitionAll(member_zone, 1, data)
  /\ zlast' = ZNoFrame
  /\ zfired' = Callbacks(Zones, [n \in Zones |-> UnpackEventZonePartition(zones[n], n, data)],
                       PartitionAll(member_zone, 1, data))
  /\ UNCHANGED outsideZones

RECURSIVE LoadAll(_, _, _)
LoadAll(mz, n, zs) ==
  IF n > ZoneCount THEN mz ELSE LoadAll(LoadMembers(mz, n, zs[n]), n + 1, zs)

\* Elk.state_load, the zone entries of the fast load file
ElkStateLoad(saved) ==
  LET zs == [n \in Zones |-> ZoneStateLoad(zones[n], saved[n])]
  IN /\ zones' = zs
     /\ member_zone' = LoadAll(member_zone, 1, zs)
     /\ zlast' = ZNoFrame
     /\ zfired' = NoCallbacks
     /\ UNCHANGED outsideZones

\* Elk.__init__: the zones and the areas' member lists
InitZones ==
  /\ zones = [n \in Zones |-> NewZone]
  /\ member_zone = [a \in Areas |-> [n \in Zones |-> FALSE]]
  /\ zlast = ZNoFrame
  /\ zfired = NoCallbacks

\* ------------------------------------------------------- Area and Keypad
STATUS_DISARMED == 0
STATUS_ARMED_AWAY == 1
STATUS_ARMED_STAY == 2

\* The 1.0 of `(event.time - self._last_user_at) < 1.0`, in tenths of a second
AttributionWindow == 10

\* time.time() when the first frame arrives (t = 1.0)
StartClock == 10

Keypads == 1..KeypadCount

\* Area.__init__ (Node.__init__ first)
NewArea ==
  [status |-> None, arm_up |-> 0, alarm |-> 0, last_user_num |-> 0,
   last_user_at |-> 0, last_armed_at |-> 0, last_disarmed_at |-> 0]

\* Keypad.__init__ (Node.__init__ first)
NewKeypad ==
  [area |-> None, last_user_num |-> -1, last_user_at |-> 0, last_user_name |-> "N/A"]

\* `(event.time - self._last_user_at) <= 1.0`
WithinWindowInclusive(t, at) == t - at <= AttributionWindow

\* `(event.time - self._last_user_at) < 1.0`
WithinWindow(t, at) == t - at < AttributionWindow

\* Area.unpack_event_arming_status_report, area a, for a frame parsed at t
UnpackEventArmingStatusReport(ar, a, data, t) ==
  LET st == DataDehex(data, FALSE)[a]
      arm_up == DataDehex(data, FALSE)[AreaCount + a]
      alarm == DataDehex(data, TRUE)[2 * AreaCount + a]
      stamp == WithinWindow(t, ar.last_user_at)
  IN IF ar.status = st /\ ar.arm_up = arm_up /\ ar.alarm = alarm THEN ar
     ELSE [ar EXCEPT
            !.status = st,
            !.last_disarmed_at = IF stamp /\ st = STATUS_DISARMED THEN t ELSE @,
            !.last_armed_at = IF stamp /\ st # STATUS_DISARMED THEN t ELSE @,
            !.arm_up = arm_up,
            !.alarm = alarm]

\* Keypad.unpack_event_user_code_entered: the user number kept
UserOf(data) == ParseInt(SubSeq(data, 13, 15)) - 1

\* USERS[user].description: no description has been fetched (Node.__init__)
UserDescription(user) == "None"

\* Keypad.unpack_event_user_code_entered: the keypad
UnpackEventUserCodeEntered(kp, data, t) ==
  [kp EXCEPT !.last_user_num = UserOf(data), !.last_user_at = t,
             !.last_user_name = IF UserOf(data) < 0 THEN "Invalid"
                                ELSE UserDescription(UserOf(data))]

\* Keypad.unpack_event_user_code_entered: the area of the keypad
UserCodeArea(ar, data, t) ==
  [ar EXCEPT !.last_user_num = UserOf(data), !.last_user_at = t]

\* Keypad.unpack_event_keypad_area_reply, keypad k: the keypad
UnpackEventKeypadAreaReply(kp, k, data) == [kp EXCEPT !.area = DataDehex(data, TRUE)[k]]

\* Keypad.unpack_event_keypad_area_reply, keypad k: the areas' entries
KeypadMembers(mk, k, data) ==
  LET a == DataDehex(data, TRUE)[k]
  IN [x \in Areas |-> [mk[x] EXCEPT ![k] = (a > 0 /\ x = a)]]

RECURSIVE KeypadMembersAll(_, _, _)
KeypadMembersAll(mk, k, data) ==
  IF k > KeypadCount THEN mk ELSE KeypadMembersAll(KeypadMembers(mk, k, data), k + 1, data)

\* Keypad.unpack_event_keypad_area_reply, keypad k: the area whose updated_at
\* is assigned and whose callback is called, AREAS[self._area_index] with
\* _area_index = _area - 1; for area 0 the index is -1, the last area of the
\* list
KeypadAreaNotified(k, data) ==
  LET a == DataDehex(data, TRUE)[k]
  IN IF a > 0 THEN a ELSE AreaCount

NoArmFrame ==
  [kind |-> "none", time |-> 0, data |-> <<>>,
   ic_at |-> [a \in Areas |-> None], ic_keypad |-> [a \in Areas |-> 0],
   ic_data |-> <<>>,
   prev |-> [a \in Areas |-> NewArea],
   notified |-> {}]

\* The delays after which the next frame arrives: 0.3 s and 1.0 s
Delays == {3, AttributionWindow}

\* The next frame is parsed d tenths of a second after this one
Elapse(d) ==
  /\ now + d <= MaxClock
  /\ now' = now + d

\* elk_queue_process, EVENT_KEYPAD_AREA_REPLY: every keypad unpacks the frame
DispatchKA(data, d) ==
  /\ ~unpack_raised
  /\ Elapse(d)
  /\ keypads' = [k \in Keypads |-> UnpackEventKeypadAreaReply(keypads[k], k, data)]
  /\ member_keypad' = KeypadMembersAll(member_keypad, 1, data)
  /\ alast' = [alast EXCEPT !.kind = "KA", !.time = now, !.data = data,
                  !.notified = {KeypadAreaNotified(k, data) : k \in Keypads}]
  /\ UNCHANGED <<outsideArming, areas, unpack_raised>>

\* elk_queue_process, EVENT_USER_CODE_ENTERED: the keypad named by characters
\* 15..16 unpacks the frame.  `self._area > 0` raises TypeError while the
\* keypad's area is None: the keypad's fields are assigned, the area's are not.
DispatchIC(data, d) ==
  LET k == ParseInt(SubSeq(data, 16, 17))
      a == keypads[k].area
  IN /\ ~unpack_raised
     /\ k \in Keypads
     /\ Elapse(d)
     /\ keypads' = [keypads EXCEPT ![k] = UnpackEventUserCodeEntered(@, data, now)]
     /\ unpack_raised' = (a = None)
     /\ areas' = IF a # None /\ a > 0
                   THEN [areas EXCEPT ![a] = UserCodeArea(@, data, now)]
                   ELSE areas
     /\ alast' = [alast EXCEPT
          !.kind = "IC", !.time = now, !.data = data, !.notified = {},
          !.ic_at = IF a # None /\ a > 0 THEN [@ EXCEPT ![a] = now] ELSE @,
          !.ic_keypad = IF a # None /\ a > 0 THEN [@ EXCEPT ![a] = k] ELSE @,
          !.ic_data = data]
     /\ UNCHANGED <<outsideArming, member_keypad>>

\* elk_queue_process, EVENT_ARMING_STATUS_REPORT: every area unpacks the frame
DispatchAS(data, d) ==
  /\ ~unpack_raised
  /\ Elapse(d)
  /\ areas' = [a \in Areas |-> UnpackEventArmingStatusReport(areas[a], a, data, now)]
  /\ alast' = [alast EXCEPT !.kind = "AS", !.time = now, !.data = data, !.prev = areas,
                  !.notified = {}]
  /\ UNCHANGED <<outsideArming, keypads, member_keypad, unpack_raised>>

\* Elk.__init__: areas and keypads as constructed
InitArming ==
  /\ areas = [a \in Areas |-> NewArea]
  /\ keypads = [k \in Keypads |-> NewKeypad]
  /\ member_keypad = [a \in Areas |-> [k \in Keypads |-> FALSE]]
  /\ now = StartClock
  /\ unpack_raised = FALSE
  /\ alast = NoArmFrame

\* ------------------------------------------- scan_zones, the description loop
\* data_str of the sd request get_description sends for zone `number`
DescriptionRequest(number) == DescriptionType["zone"] \o Format03(number)

\* The panel's SD reply to a request: "If there is nothing set for the
\* requested description, the Elk will return the next valid description
\* instead"; 000 when no description is left.
PanelDescription(request, named) ==
  LET number == ParseInt(SubSeq(request, 3, 5))
      later == {m \in named : m >= number}
  IN SubSeq(request, 1, 2)
       \o Format03(IF later = {} THEN 0
                   ELSE CHOOSE m \in later : \A k \in later : m <= k)

\* get_description with reply_number + 2 for reply_number + 1
GetDescriptionSkipTwo(data, number) ==
  LET reply_number == ParseInt(SubSeq(data, 3, 5))
  IN IF reply_number >= number THEN reply_number + 2 ELSE 0

\* get_description, the value returned for a reply: reply_number + 1, or
\* False (0) when the reply is for a lower number than the one asked
GetDescription(data, number) ==
  LET reply_number == ParseInt(SubSeq(data, 3, 5))
  IN IF reply_number >= number THEN reply_number + 1 ELSE 0

\* get_description that stores no description
GetDescriptionSetNone(data, number, described) == described

\* get_description, the zones with a description after a reply
GetDescriptionSet(data, number, described) ==
  LET reply_type == SubSeq(data, 1, 2)
      reply_number == ParseInt(SubSeq(data, 3, 5))
  IN IF reply_number >= number /\ reply_type = DescriptionType["zone"]
       THEN described \cup {reply_number}
       ELSE described

\* No description loop is running
WalkIdle ==
  [pc |-> "idle", desc_index |-> 0, requests |-> <<>>, reply |-> <<>>,
   named |-> {}, included |-> {}, described |-> {}, timed_out |-> FALSE,
   replies |-> <<>>]

\* scan_zones at `desc_index = 1`, with a panel that has names for `named`
WalkStart(named, inc) ==
  [WalkIdle EXCEPT !.pc = "loop", !.desc_index = 1, !.named = named,
                   !.included = inc]

\* scan_zones, one turn of `while (desc_index) and (desc_index <= ZONE_MAX_COUNT)`
\* up to the wait inside get_description
WalkLoop ==
  /\ walk.pc = "loop"
  /\ IF walk.desc_index = 0 \/ walk.desc_index > DescMax
       THEN walk' = [walk EXCEPT !.pc = "done"]
       ELSE IF walk.desc_index \in walk.included
         THEN walk' = [walk EXCEPT !.pc = "wait", !.reply = <<>>,
                         !.requests = Append(@, DescriptionRequest(walk.desc_index))]
         ELSE walk' = [walk EXCEPT !.desc_index = @ + 1]
  /\ UNCHANGED outsideWalk

\* The panel answers the last sd request
PanelDescribe ==
  /\ walk.pc = "wait"
  /\ walk.reply = <<>>
  /\ walk' = [walk EXCEPT !.reply =
                PanelDescription(walk.requests[Len(walk.requests)], walk.named)]
  /\ UNCHANGED outsideWalk

\* get_description from `if reply:` on, and the assignment to desc_index
WalkReply ==
  /\ walk.pc = "wait"
  /\ walk.reply # <<>>
  /\ walk' = [walk EXCEPT
                !.pc = "loop",
                !.desc_index = GetDescription(walk.reply, walk.desc_index),
                !.described = GetDescriptionSet(walk.reply, walk.desc_index, @),
                !.replies = Append(@, ParseInt(SubSeq(walk.reply, 3, 5))),
                !.reply = <<>>]
  /\ UNCHANGED outsideWalk

\* elk_event_scan returns False after its timeout: get_description returns False
WalkTimeout ==
  /\ walk.pc = "wait"
  /\ walk.reply = <<>>
  /\ walk' = [walk EXCEPT !.pc = "loop", !.desc_index = 0, !.timed_out = TRUE]
  /\ UNCHANGED outsideWalk

\* No description loop is running
InitWalk == walk = WalkIdle

\* ------------------------------------------------------ temperature replies
Thermostats == 1..ThermostatCount

\* Keypad.__init__: _temp, _temp_enabled
NewKeypadTemp == [temp |-> -460, temp_enabled |-> FALSE]

\* Thermostat.__init__: _temp
NewThermostat == [temp |-> -460]

\* Keypad.unpack_event_temp_request_reply
KeypadTempRequestReply(k, data) ==
  LET temp == ParseInt(SubSeq(data, 4, 6)) - 40
  IN [k EXCEPT !.temp = temp, !.temp_enabled = (temp # -40)]

\* Thermostat.unpack_event_temp_request_reply: `self._temp = data` names a
\* variable the method never binds, so the branch `temp > 0 and temp < 100`
\* raises NameError before any field is assigned; outside it nothing is done.
ThermostatTempRaises(data) ==
  LET temp == ParseInt(SubSeq(data, 4, 6)) - 40
  IN temp > 0 /\ temp < 100

NoSTFrame == [kind |-> "none", data |-> <<>>]

\* elk_queue_process, EVENT_TEMP_REQUEST_REPLY: the zone, keypad or thermostat
\* named by the two digits after the group unpacks the frame
DispatchST(data) ==
  LET group == DigitValue(data[1])
      n == ParseInt(SubSeq(data, 2, 3))
  IN /\ ~unpack_raised
     /\ stlast' = [kind |-> "ST", data |-> data]
     /\ IF n - 1 < 0 \/ group > 2
          THEN UNCHANGED <<zones, zlast, zfired, ktemp, unpack_raised>>
          ELSE IF group = 0
            THEN /\ n \in Zones
                 /\ zones' = [zones EXCEPT ![n] = UnpackEventTempRequestReply(@, data)]
                 /\ zlast' = ZNoFrame
                 /\ zfired' = Callbacks({n}, [zones EXCEPT ![n] = UnpackEventTempRequestReply(@, data)],
                                      member_zone)
                 /\ UNCHANGED <<ktemp, unpack_raised>>
            ELSE IF group = 1
              THEN /\ n \in Keypads
                   /\ ktemp' = [ktemp EXCEPT ![n] = KeypadTempRequestReply(@, data)]
                   /\ UNCHANGED <<zones, zlast, zfired, unpack_raised>>
              ELSE /\ n \in Thermostats
                   /\ unpack_raised' = ThermostatTempRaises(data)
                   /\ UNCHANGED <<zones, zlast, zfired, ktemp>>
     /\ UNCHANGED <<runtimeVars, codecVars, walkVars, x10Vars, snapVars, inclVars, stopVars, mutVars, nodeVars, settingVars,
                    member_zone,
                    areas, keypads, member_keypad, now, alast, therm>>

\* Elk.__init__: the temperatures as constructed
InitTemps ==
  /\ ktemp = [k \in Keypads |-> NewKeypadTemp]
  /\ therm = [t \in Thermostats |-> NewThermostat]
  /\ stlast = NoSTFrame

\* ------------------------------------------------------------------- X10
STATUS_OFF == 0
STATUS_ON == 1
STATUS_DIMMED == 2

\* Indexes of Elk.X10
X10Index == 0..(X10Count - 1)

\* X10.__init__ (Node.__init__: status None, updated_at 0)
NewX10 == [status |-> None, level |-> 0, updated_at |-> 0]

\* X10._state_from_int
StateFromInt(dev, state) ==
  IF state = 0 THEN [dev EXCEPT !.status = STATUS_OFF, !.level = 0]
  ELSE IF state = 1 THEN [dev EXCEPT !.status = STATUS_ON, !.level = 100]
  ELSE [dev EXCEPT !.status = STATUS_DIMMED, !.level = state]

\* X10.unpack_event_plc_status_reply for the device at `index`:
\* data_dehex(True)[1 + index % 64]
UnpackEventPlcStatusReply(dev, index, data, t) ==
  LET offset == index % 64
      state == DataDehex(data, TRUE)[1 + offset + 1]
  IN [StateFromInt(dev, state) EXCEPT !.updated_at = t]

\* No PS frame was dispatched yet
NoPSFrame == [kind |-> "none", data |-> <<>>, time |-> 0, prev |-> <<>>]

\* elk_queue_process, EVENT_PLC_STATUS_REPLY: group_base = int(data_str[0]),
\* the devices in range(group_base, group_base + 64) unpack the frame
DispatchPS(data, d) ==
  LET group_base == ParseInt(<<data[1]>>)
  IN /\ Elapse(d)
     /\ x10' = [i \in X10Index |->
                  IF i \in group_base..(group_base + 64 - 1)
                    THEN UnpackEventPlcStatusReply(x10[i], i, data, now)
                    ELSE x10[i]]
     /\ xlast' = [kind |-> "PS", data |-> data, time |-> now, prev |-> x10]
     /\ UNCHANGED <<runtimeVars, codecVars, zoneVars, walkVars, tempVars, snapVars,
                    inclVars, stopVars, mutVars, nodeVars, settingVars, areas, keypads, member_keypad, unpack_raised, alast>>

\* Elk.__init__: the X10 devices as constructed
InitX10 ==
  /\ x10 = [i \in X10Index |-> NewX10]
  /\ xlast = NoPSFrame

\* ------------------------------------------------ threads that unpack frames
\* The threads that call update(): the reader thread (elk_event_enqueue) and
\* an application thread
PassThreads == {"reader", "app"}

\* Where a thread is: in no pass or scan ("idle"), between the test of
\* _update_in_progress and its assignment ("checked"), in the loop of
\* elk_queue_process ("pass"), inside an unpack handler of the zone `zone`
\* ("unpack"); the scanner inside the zone loop over a ZS reply ("zs") or a ZD
\* reply ("zd"), which assigns every zone, or between the two ("zs_done").
MutIdle == [pc |-> "idle", zone |-> 0]

\* elk_queue_process, `if self._update_in_progress: return`
PassCheck(t) ==
  /\ mut[t].pc = "idle"
  /\ ~update_in_progress
  /\ mut' = [mut EXCEPT ![t].pc = "checked"]
  /\ UNCHANGED <<runtimeVars, outsideMut>>

\* elk_queue_process, `self._update_in_progress = True`
PassSet(t) ==
  /\ mut[t].pc = "checked"
  /\ update_in_progress' = TRUE
  /\ mut' = [mut EXCEPT ![t].pc = "pass"]
  /\ UNCHANGED <<runtimeButGuard, outsideMut>>

\* elk_queue_process, EVENT_ZONE_UPDATE: the pass enters
\* ZONES[n].unpack_event_zone_update for the zone a queued ZC frame names
PassUnpack(t, n) ==
  /\ mut[t].pc = "pass"
  /\ mut' = [mut EXCEPT ![t] = [pc |-> "unpack", zone |-> n]]
  /\ UNCHANGED <<runtimeVars, outsideMut>>

\* the handler returns; the pass goes on with the next frame of its list
PassUnpacked(t) ==
  /\ mut[t].pc = "unpack"
  /\ mut' = [mut EXCEPT ![t] = [pc |-> "pass", zone |-> 0]]
  /\ UNCHANGED <<runtimeVars, outsideMut>>

\* elk_queue_process, the end of the list: `self._update_in_progress = False`
PassEnd(t) ==
  /\ mut[t].pc = "pass"
  /\ update_in_progress' = FALSE
  /\ mut' = [mut EXCEPT ![t] = MutIdle]
  /\ UNCHANGED <<runtimeButGuard, outsideMut>>

\* scan_zones: the scanner thread got the ZS reply, then the ZD reply, and
\* calls the unpack handler of every zone itself
ScanZonesStep ==
  /\ mut["scanner"].pc \in {"idle", "zs", "zs_done", "zd"}
  /\ mut' = [mut EXCEPT !["scanner"].pc =
               CASE @ = "idle" -> "zs"
                 [] @ = "zs" -> "zs_done"
                 [] @ = "zs_done" -> "zd"
                 [] @ = "zd" -> "idle"]
  /\ UNCHANGED <<runtimeVars, outsideMut>>

\* The zones a thread is assigning
Mutating(t) ==
  IF mut[t].pc = "unpack" THEN {mut[t].zone}
  ELSE IF mut[t].pc \in {"zs", "zd"} THEN Zones
  ELSE {}

InitMut == mut = [t \in PassThreads \cup {"scanner"} |-> MutIdle]

\* ------------------------------------------------ entities and their numbers
\* The device classes Elk.__init__ creates, in the order of range_order
DeviceClasses ==
  <<"zone", "output", "area", "keypad", "thermostat", "x10", "task", "user",
    "counter", "setting">>

\* Node.__init__(classname, pyelk, number = 0): `pyelk` is what the node will
\* call elk_event_send on, "Elk" for the Elk object
NodeInit(pyelk, number) ==
  [pyelk |-> pyelk, index |-> number, number |-> number + 1]

\* The constructor of a device class called as Class(self, device_num). Every
\* class passes ('Name', pyelk, number) on to Node.__init__, except Task, which
\* passes (pyelk, number): the Elk object lands in classname, device_num in
\* pyelk, and number keeps its default 0.
DeviceInit(device_class, device_num) ==
  IF device_class = "task" THEN NodeInit("int", 0)
  ELSE NodeInit("Elk", device_num)

\* format(n, '02')
Format02(n) == <<Digits[((n \div 10) % 10) + 1], Digits[(n % 10) + 1]>>

\* The classes of the model whose entities issue a command that carries their
\* number: Output.turn_off and Task.turn_on ('03'), Counter.get_value and
\* Setting.get_value ('02')
CommandClasses == {"output", "task", "counter", "setting"}

\* The command an entity builds and hands to self._pyelk.elk_event_send; the
\* call raises AttributeError when _pyelk is not the Elk object
DeviceCommand(device_class, pos) ==
  LET node == nodes.lists[device_class][pos + 1]
  IN [class |-> device_class, pos |-> pos,
      data |-> IF device_class \in {"output", "task"} THEN Format03(node.number)
               ELSE Format02(node.number),
      raised |-> node.pyelk # "Elk"]

NoNodes ==
  [built |-> FALSE,
   lists |-> [c \in {DeviceClasses[k] : k \in 1..Len(DeviceClasses)} |-> <<>>],
   issued |-> <<>>]

\* Elk.__init__: for every class, for device_num in range(0, max_range):
\* device = Class(self, device_num); LIST.append(device)
ConstructNodes ==
  /\ ~nodes.built
  /\ nodes' = [nodes EXCEPT
       !.built = TRUE,
       !.lists = [c \in DOMAIN nodes.lists |->
                    [k \in 1..NodeCount |-> DeviceInit(c, k - 1)]]]
  /\ UNCHANGED <<runtimeVars, outsideNodes>>

\* An application calls the command method of the entity at position pos
IssueCommand(device_class, pos) ==
  /\ nodes.built
  /\ Len(nodes.issued) < MaxIssued
  /\ nodes' = [nodes EXCEPT !.issued = Append(@, DeviceCommand(device_class, pos))]
  /\ UNCHANGED <<runtimeVars, outsideNodes>>

InitNodes == nodes = NoNodes

\* ------------------------------------------------------ custom settings
Settings == 1..SettingCount

\* Setting.__init__: status None, format FORMAT_NUMBER
NewSetting == [status |-> None, format |-> 0]

\* Setting.unpack_event_value_read_reply for the setting with index
\* setting_index, for the formats Number (0) and Timer (1): the value is the
\* number itself.  int('') and data_str[k] past the end raise.
ValueReadOffset(setting_index, data) ==
  IF ParseInt(PySlice(data, 0, 1)) = 0 THEN 2 + (6 * setting_index) ELSE 2

ValueReadRaises(setting_index, data) ==
  LET offset == ValueReadOffset(setting_index, data)
  IN PySlice(data, offset, offset + 5) = <<>> \/ Len(data) < offset + 6

UnpackEventValueReadReply(setting_index, st, data) ==
  LET offset == ValueReadOffset(setting_index, data)
      raw_data == ParseInt(PySlice(data, offset, offset + 5))
      data_format == ParseInt(<<data[offset + 6]>>)
  IN IF st.status = raw_data THEN st
     ELSE [status |-> raw_data, format |-> data_format]

NoValueRead ==
  [nodes |-> [k \in Settings |-> NewSetting], data |-> <<>>,
   before |-> [k \in Settings |-> NewSetting], raised |-> FALSE]

\* elk_queue_process, EVENT_VALUE_READ_REPLY: node_index < 0 unpacks the
\* reply on every setting in turn, otherwise on SETTINGS[node_index]; an
\* exception in a handler ends the pass where it is
DispatchCR(data) ==
  /\ ~settings.raised
  /\ LET node_index == ParseInt(PySlice(data, 0, 2)) - 1
         targets == IF node_index < 0 THEN Settings ELSE {node_index + 1}
         failing == {k \in targets : ValueReadRaises(k - 1, data)}
         reached(k) == \A j \in failing : k < j
     IN settings' =
          [nodes |-> [k \in Settings |->
                        IF k \in targets /\ reached(k)
                          THEN UnpackEventValueReadReply(k - 1, settings.nodes[k], data)
                          ELSE settings.nodes[k]],
           data |-> data,
           before |-> settings.nodes,
           raised |-> failing # {}]
  /\ UNCHANGED <<runtimeVars, outsideSettings>>

InitSettings == settings = NoValueRead

\* ------------------------------------------------------------- Elk.stop
\* stop(): status Disconnected, _connection = None.  The Connection object
\* has no other reference, so its __del__ runs at once: the output handler's
\* _stopping is set and the reader thread is closed.
Stop ==
  /\ connected
  /\ app.pc = "idle"
  /\ status' = STATE_DISCONNECTED
  /\ connected' = FALSE
  /\ stopping' = TRUE
  /\ UNCHANGED <<elk_state, unpaused_status, elkrp_connected, update_in_progress,
                 frames, stale, queue_incoming, events, queue_outgoing, wire,
                 applied, reader, writer, out_event, app, scan_state, scan_event,
                 scanner, included, description, hist>>
  /\ UNCHANGED <<codecVars, zoneVars, armVars, walkVars, x10Vars, tempVars,
                 snapVars, inclVars, mutVars, nodeVars, settingVars>>

InitStop == stopping = FALSE

\* ------------------------------------------- Elk.__init__, include / exclude
\* str.split('-') of a token that holds one '-': the part before and after it
SplitStart(token) ==
  SubSeq(token, 1, (CHOOSE i \in 1..Len(token) : token[i] = "-") - 1)

SplitEnd(token) ==
  SubSeq(token, (CHOOSE i \in 1..Len(token) : token[i] = "-") + 1, Len(token))

\* _list_from_ranges for one numeric token: a range 'a-b' gives the indexes
\* a-1 .. b-1, a single number 'k' gives k itself (range_start is computed but
\* num_start is appended)
TokenIndexes(token) ==
  IF \E i \in 1..Len(token) : token[i] = "-"
    THEN (ParseInt(SplitStart(token)) - 1)..(ParseInt(SplitEnd(token)) - 1)
    ELSE {ParseInt(token)}

\* _list_from_ranges: the indexes named by a list of tokens
ListFromRanges(data) == UNION {TokenIndexes(data[i]) : i \in 1..Len(data)}

\* Elk.__init__: the entity numbers included, of a class with IncludeMax
\* entities; device_num runs over range(0, max) and the entity's number is
\* device_num + 1
Inclusion(cfg) ==
  LET include_range == IF cfg.has_include THEN ListFromRanges(cfg.include)
                       ELSE 0..(IncludeMax - 1)
      exclude_range == IF cfg.has_exclude THEN ListFromRanges(cfg.exclude) ELSE {}
  IN {device_num + 1 : device_num \in
        {d \in 0..(IncludeMax - 1) : d \in include_range /\ d \notin exclude_range}}

NoConfig ==
  [has_include |-> FALSE, include |-> <<>>, has_exclude |-> FALSE, exclude |-> <<>>,
   built |-> FALSE, included |-> {}]

\* Elk.__init__, the loop that creates the entities of one class
Construct ==
  /\ ~incl.built
  /\ incl' = [incl EXCEPT !.built = TRUE, !.included = Inclusion(incl)]
  /\ UNCHANGED outsideIncl

InitIncl == incl = NoConfig

\* ------------------------------------------------- state_save / state_load
\* Node.state_save for an Area (Area has no state_save of its own): of the
\* fields of the model, status
AreaStateSave(ar) == [status |-> ar.status]

\* Node.state_load for an Area
AreaStateLoad(ar, saved) == [ar EXCEPT !.status = saved.status]

\* Keypad.state_save
KeypadStateSave(kp, kt) ==
  [area |-> kp.area, last_user_num |-> kp.last_user_num,
   last_user_at |-> kp.last_user_at, last_user_name |-> kp.last_user_name,
   temp_enabled |-> kt.temp_enabled, temp |-> kt.temp]

\* Node.state_load then Keypad.state_load: the branch for last_user_name
\* tests state_key == 'last_user_at' a second time and is never taken
KeypadStateLoad(kp, saved) ==
  [kp EXCEPT !.area = IF saved.area # None THEN saved.area ELSE @,
             !.last_user_num = saved.last_user_num,
             !.last_user_at = saved.last_user_at]

\* Keypad.state_load: temp_enabled and temp
KeypadTempLoad(kt, saved) ==
  [kt EXCEPT !.temp_enabled = saved.temp_enabled, !.temp = saved.temp]

\* Zone.state_save
ZoneStateSave(z) ==
  [area |-> z.area, enabled |-> z.enabled, status |-> z.status, state |-> z.state,
   definition |-> z.definition, alarm |-> z.alarm, temp |-> z.temp]

\* Thermostat.state_save / state_load: temp
ThermostatStateSave(t) == [temp |-> t.temp]

ThermostatStateLoad(t, saved) == [t EXCEPT !.temp = saved.temp]

\* X10.state_save / state_load: Node's status, and level
X10StateSave(dev) == [status |-> dev.status, level |-> dev.level]

X10StateLoad(dev, saved) == [dev EXCEPT !.status = saved.status, !.level = saved.level]

\* Elk.state_save: the lists written to the fast load file.  json.dump and
\* json.load map the integers, booleans, strings and None of these records to
\* themselves.
StateSave ==
  [zone |-> [n \in Zones |-> ZoneStateSave(zones[n])],
   area |-> [a \in Areas |-> AreaStateSave(areas[a])],
   keypad |-> [k \in Keypads |-> KeypadStateSave(keypads[k], ktemp[k])],
   thermostat |-> [t \in Thermostats |-> ThermostatStateSave(therm[t])],
   x10 |-> [i \in X10Index |-> X10StateSave(x10[i])]]

\* Keypad.state_load, keypad k: the entry of the keypad's area is set
RECURSIVE KeypadLoadAll(_, _, _)
KeypadLoadAll(mk, k, ks) ==
  IF k > KeypadCount THEN mk ELSE KeypadLoadAll(LoadMembers(mk, k, ks[k]), k + 1, ks)

\* Elk.__init__ followed by Elk.state_load of the file `saved`
StateLoad(saved) ==
  LET zs == [n \in Zones |-> ZoneStateLoad(NewZone, saved.zone[n])]
      ks == [k \in Keypads |-> KeypadStateLoad(NewKeypad, saved.keypad[k])]
  IN [done |-> TRUE,
      zones |-> zs,
      member_zone |-> LoadAll([a \in Areas |-> [n \in Zones |-> FALSE]], 1, zs),
      areas |-> [a \in Areas |-> AreaStateLoad(NewArea, saved.area[a])],
      keypads |-> ks,
      member_keypad |-> KeypadLoadAll([a \in Areas |-> [k \in Keypads |-> FALSE]], 1, ks),
      ktemp |-> [k \in Keypads |-> KeypadTempLoad(NewKeypadTemp, saved.keypad[k])],
      therm |-> [t \in Thermostats |-> ThermostatStateLoad(NewThermostat, saved.thermostat[t])],
      x10 |-> [i \in X10Index |-> X10StateLoad(NewX10, saved.x10[i])]]

NoSnapshot ==
  [done |-> FALSE, zones |-> <<>>, member_zone |-> <<>>, areas |-> <<>>,
   keypads |-> <<>>, member_keypad |-> <<>>, ktemp |-> <<>>, therm |-> <<>>,
   x10 |-> <<>>]

\* state_save, then state_load in a newly constructed Elk
SnapshotRoundTrip ==
  /\ ~snapshot.done
  /\ snapshot' = StateLoad(StateSave)
  /\ UNCHANGED outsideSnapshot

InitSnapshot == snapshot = NoSnapshot

\* The state of the entities and of the codec after Elk.__init__
InitEntities == codec = CodecIdle /\ InitZones /\ InitArming /\ InitWalk /\ InitX10 /\ InitTemps /\ InitSnapshot /\ InitIncl /\ InitStop /\ InitMut /\ InitNodes /\ InitSettings

\* ------------------------------------------------------------------- Init
\* The state after Elk.__init__: entities created, the Scanner thread
\* started, no connection yet.
InitElk ==
  /\ status = STATE_DISCONNECTED
  /\ elk_state = "None"
  /\ unpaused_status = "None"
  /\ connected = FALSE
  /\ elkrp_connected = FALSE
  /\ update_in_progress = FALSE
  /\ frames = <<>>
  /\ stale = {}
  /\ queue_incoming = <<>>
  /\ events = <<>>
  /\ queue_outgoing = <<>>
  /\ wire = <<>>
  /\ applied = <<>>
  /\ reader = [pc |-> "idle", snap |-> <<>>]
  /\ writer = [pc |-> "none", snap |-> <<>>, ev |-> 0]
  /\ out_event = FALSE
  /\ app = [pc |-> "idle", ev |-> 0]
  /\ scan_state = "Idle"
  /\ scan_event = FALSE
  /\ scanner = [pc |-> "top", wait |-> "", desc_index |-> 0, polled |-> FALSE]
  /\ description = [c \in Classes |-> {}]
  /\ hist = [rp_window |-> FALSE, rp_issued |-> {}, accepted |-> <<>>,
             delayed |-> {}, reply_in_time |-> {}, pre_rp_status |-> "None",
             rp0_seen |-> FALSE, rp0_restored |-> TRUE,
             after_rp0 |-> {}, ie_pending |-> FALSE,
             timeouts |-> {}, scanned |-> FALSE, cancelled_by |-> {}]

\* The configuration includes every entity
Init == InitElk /\ InitEntities /\ included = [c \in Classes |-> 1..ClassCount]

\* ------------------------------------------------------- Elk._rescan
\* Elk._rescan_in_progress
RescanInProgress == scan_state # "Idle"

\* Elk._rescan: the new value of Scanner._event
Rescan(ev) == IF RescanInProgress THEN ev ELSE TRUE

\* ------------------------------------------------------- Elk.connect
\* Elk.connect, called once by the application, up to the return of
\* Connection.connect: status Connecting, a Connection with its reader and
\* writer threads running and the outbound queue set.
ConnectStart ==
  /\ ~connected
  /\ status = STATE_DISCONNECTED
  /\ app.pc = "idle"
  /\ connected' = TRUE
  /\ elkrp_connected' = FALSE
  /\ status' = STATE_CONNECTING
  /\ queue_outgoing' = <<>>
  /\ writer' = [pc |-> "start", snap |-> <<>>, ev |-> 0]
  /\ out_event' = FALSE
  /\ app' = [pc |-> "connect", ev |-> 0]
  /\ UNCHANGED <<elk_state, unpaused_status, update_in_progress, frames, stale,
                 queue_incoming, events, wire, applied, reader, scan_state,
                 scan_event, scanner, included, description, hist>>
  /\ UNCHANGED entVars

\* Elk.connect, `if self._connection.connected`: status Running, then _rescan
ConnectDone ==
  /\ app.pc = "connect"
  /\ status' = STATE_RUNNING
  /\ scan_event' = Rescan(scan_event)
  /\ app' = [pc |-> "idle", ev |-> 0]
  /\ UNCHANGED <<elk_state, unpaused_status, connected, elkrp_connected,
                 update_in_progress, frames, stale, queue_incoming, events,
                 queue_outgoing, wire, applied, reader, writer, out_event,
                 scan_state, scanner, included, description, hist>>
  /\ UNCHANGED entVars

\* ------------------------------------------------ Elk.elk_event_enqueue
\* The expect of event e spells the tag of frame f (history only)
RetryMatchesTag(e, f) == Len(e.expect) > 0 /\ TypeChars(f.type) = e.expect

\* elk_event_enqueue, the test of one pending event against the new frame:
\* expect is compared with the first len(expect) characters of data_str
RetryMatches(e, f) == Len(e.expect) > 0 /\ Prefix(f.data, Len(e.expect)) = e.expect

\* elk_event_enqueue, the loop over list(queue_outgoing): its body ends with
\* break, so only the first entry is ever examined
RetryCancel(outq, f) ==
  IF outq # <<>> /\ RetryMatches(events[outq[1]], f) THEN Tail(outq) ELSE outq

\* The commands whose expect names the kind of frame f and for which f arrives
\* in time: sent once, retry budget not used up, retry delay not elapsed
\* (history only).
AwaitingReply(f) ==
  {c \in 1..Len(events) :
     /\ RetryMatchesTag(events[c], f)
     /\ Count(wire, c) = 1
     /\ \/ writer.ev = c /\ writer.pc \in {"remove", "requeue"} /\ events[c].retries > 0
        \/ Contains(queue_outgoing, c) /\ events[c].time > 0}

\* handle_line -> elk_event_enqueue up to the start of the dispatch pass:
\* parse, append to the inbound queue, cancel a pending retry, then
\* update() -> elk_queue_process, which returns at once when a pass is in
\* progress and otherwise takes the guard and list(queue_incoming).
ElkEventEnqueue(f) ==
  /\ connected
  /\ reader.pc = "idle"
  /\ Len(frames) < MaxFrames
  /\ LET id == Len(frames) + 1
         q1 == Append(queue_incoming, id)
     IN /\ frames' = Append(frames, f)
        /\ queue_incoming' = q1
        /\ queue_outgoing' = RetryCancel(queue_outgoing, f)
        /\ IF update_in_progress
             THEN reader' = [pc |-> "idle", snap |-> <<>>]
             ELSE reader' = [pc |-> "pass", snap |-> q1]
        /\ update_in_progress' = TRUE
        /\ hist' = [hist EXCEPT
             !.reply_in_time = @ \cup AwaitingReply(f),
             !.cancelled_by = IF RetryCancel(queue_outgoing, f) # queue_outgoing
                                THEN @ \cup {id} ELSE @]
  /\ UNCHANGED <<elkVars, connected, stale, events, applied, writerVars, app,
                 scan_event, scanVars>>
  /\ UNCHANGED entVars

\* ------------------------------------------------ Elk.elk_queue_process
\* The EVENT_INSTALLER_ELKRP branch: the new (status, unpaused_status,
\* elkrp_connected, queue_outgoing) for rp_status 0, 1 or 2.
RpHandle(rp) ==
  IF rp = "0"
    THEN [status |-> IF unpaused_status # "None" THEN unpaused_status ELSE status,
          unpaused |-> "None",
          elkrp |-> FALSE,
          outq |-> <<>>]
    ELSE IF rp \in {"1", "2"}
      THEN [status |-> STATE_PAUSED,
            unpaused |-> IF status # STATE_PAUSED THEN status ELSE unpaused_status,
            elkrp |-> TRUE,
            outq |-> queue_outgoing]
      ELSE [status |-> status, unpaused |-> unpaused_status,
            elkrp |-> elkrp_connected, outq |-> queue_outgoing]

\* What the pass does with the frame at the head of its list.
\*   "stale"  : older than 120 s, removed without dispatch
\*   "skip"   : left in the queue (not auto-processed, or blacklisted during a rescan)
\*   "handle" : removed and dispatched
DispatchKind(id) ==
  IF id \in stale THEN "stale"
  ELSE IF frames[id].type \notin EVENT_LIST_AUTO_PROCESS THEN "skip"
  ELSE IF RescanInProgress /\ frames[id].type \in EVENT_LIST_RESCAN_BLACKLIST THEN "skip"
  ELSE "handle"

\* One iteration of the loop of elk_queue_process over list(queue_incoming).
\* queue_incoming.remove raises ValueError when the frame is no longer
\* queued: the reader thread dies with the guard taken.  An IE frame returns
\* from the pass without releasing the guard; the end of the list releases it.
Dispatch ==
  /\ reader.pc = "pass"
  /\ reader.snap # <<>>
  /\ LET id == Head(reader.snap)
         f == frames[id]
         rest == Tail(reader.snap)
         kind == DispatchKind(id)
         gone == kind # "skip" /\ ~Contains(queue_incoming, id)
         handled == kind = "handle" /\ ~gone
         isIE == handled /\ f.type = "IE"
         isRP == handled /\ f.type = "RP"
         rp == RpHandle(f.data[1])
     IN /\ reader' = IF gone THEN [pc |-> "dead", snap |-> <<>>]
                     ELSE IF isIE \/ rest = <<>> THEN [pc |-> "idle", snap |-> <<>>]
                     ELSE [pc |-> "pass", snap |-> rest]
        /\ update_in_progress' = IF ~gone /\ ~isIE /\ rest = <<>> THEN FALSE ELSE update_in_progress
        /\ queue_incoming' = IF kind # "skip" /\ ~gone THEN Remove(queue_incoming, id) ELSE queue_incoming
        /\ stale' = stale \ {id}
        /\ status' = IF isRP THEN rp.status ELSE status
        /\ unpaused_status' = IF isRP THEN rp.unpaused ELSE unpaused_status
        /\ elkrp_connected' = IF isRP THEN rp.elkrp ELSE elkrp_connected
        /\ queue_outgoing' = IF isRP THEN rp.outq ELSE queue_outgoing
        /\ scan_event' = IF isIE THEN Rescan(scan_event) ELSE scan_event
        /\ applied' = IF handled /\ f.type \in ZoneFrameTypes THEN Append(applied, id) ELSE applied
        /\ hist' = [hist EXCEPT
             !.rp_window = IF isRP THEN f.data[1] # "0" ELSE @,
             !.pre_rp_status = IF isRP /\ f.data[1] # "0" /\ ~hist.rp_window
                                 THEN status ELSE @,
             !.rp0_seen = IF isRP /\ f.data[1] = "0" /\ hist.rp_window THEN TRUE ELSE @,
             !.rp0_restored = IF isRP /\ f.data[1] = "0" /\ hist.rp_window
                                THEN rp.status = hist.pre_rp_status ELSE @,
             !.ie_pending = IF isIE /\ ~RescanInProgress THEN TRUE ELSE @]
  /\ UNCHANGED <<connected, frames, events, writerVars, app, scanVars>>
  /\ UNCHANGED entVars

\* --------------------------------------------------- Elk.elk_event_send
\* elk_event_send refuses the event while ElkRP is connected
SendRefusedNever == FALSE

SendRefused == elkrp_connected

\* An application thread builds an Event from template t and calls
\* elk_event_send: to_string and the test of _elkrp_connected.
ElkEventSend(t) ==
  /\ connected
  /\ app.pc = "idle"
  /\ Len(events) < MaxCmds
  /\ LET id == Len(events) + 1
     IN /\ events' = Append(events, [type |-> t.type, time |-> t.delay,
                                     retries |-> t.retries, expect |-> t.expect,
                                     retry_delay |-> DefaultRetryDelay])
        /\ app' = IF SendRefused THEN [pc |-> "idle", ev |-> 0] ELSE [pc |-> "append", ev |-> id]
        /\ hist' = [hist EXCEPT
             !.rp_issued = IF hist.rp_window THEN @ \cup {id} ELSE @,
             !.delayed = IF t.delay > 0 THEN @ \cup {id} ELSE @,
             !.after_rp0 = IF hist.rp0_seen /\ ~hist.rp_window THEN @ \cup {id} ELSE @]
  /\ UNCHANGED <<elkVars, elk_state, connected, update_in_progress, frames, stale,
                 queue_incoming, queue_outgoing, wire, applied, reader, writer,
                 out_event, scan_state, scan_event, scanner, included, description>>
  /\ UNCHANGED entVars

\* elk_event_send, the else branch: append to the outbound queue and resume
\* the writer.
ElkEventSendAppend ==
  /\ app.pc = "append"
  /\ queue_outgoing' = Append(queue_outgoing, app.ev)
  /\ out_event' = TRUE
  /\ app' = [pc |-> "idle", ev |-> 0]
  /\ hist' = [hist EXCEPT !.accepted = Append(@, app.ev)]
  /\ UNCHANGED <<elkVars, elk_state, connected, update_in_progress, frames, stale,
                 queue_incoming, events, wire, applied, reader, writer,
                 scan_state, scan_event, scanner, included, description>>
  /\ UNCHANGED entVars


\* -------------------------------------------- SerialOutputHandler.run
\* `if event.time <= time.time()`
Due(e) == e.time = 0

\* the test of the retry with the expect left out
NeedsRetryAnyExpect(e) == e.retries > 0

\* `if (event.retries > 0) and (len(event.expect) > 0)`
NeedsRetry(e) == e.retries > 0 /\ Len(e.expect) > 0

\* run, first line after `pending = False`: self._event.wait()
WriterStart ==
  /\ writer.pc = "start"
  /\ out_event
  /\ writer' = [writer EXCEPT !.pc = "top"]
  /\ UNCHANGED <<elkVars, elk_state, connected, update_in_progress, frames, stale,
                 queue_incoming, events, queue_outgoing, wire, applied, reader,
                 out_event, app, scan_state, scan_event, scanner, included,
                 description, hist>>
  /\ UNCHANGED entVars

\* top of the loop: `while not self._stopping`, then `if len(self._queue) == 0`
WriterTop ==
  /\ writer.pc = "top"
  /\ writer' = [writer EXCEPT !.pc = IF stopping THEN "stopped"
                                      ELSE IF Len(queue_outgoing) = 0 THEN "wait"
                                      ELSE "snap"]
  /\ UNCHANGED <<elkVars, elk_state, connected, update_in_progress, frames, stale,
                 queue_incoming, events, queue_outgoing, wire, applied, reader,
                 out_event, app, scan_state, scan_event, scanner, included,
                 description, hist>>
  /\ UNCHANGED entVars

\* self._event.wait() returns once the event is set
WriterWait ==
  /\ writer.pc = "wait"
  /\ out_event
  /\ writer' = [writer EXCEPT !.pc = "clear"]
  /\ UNCHANGED <<elkVars, elk_state, connected, update_in_progress, frames, stale,
                 queue_incoming, events, queue_outgoing, wire, applied, reader,
                 out_event, app, scan_state, scan_event, scanner, included,
                 description, hist>>
  /\ UNCHANGED entVars

\* self._event.clear()
WriterClear ==
  /\ writer.pc = "clear"
  /\ out_event' = FALSE
  /\ writer' = [writer EXCEPT !.pc = "snap"]
  /\ UNCHANGED <<elkVars, elk_state, connected, update_in_progress, frames, stale,
                 queue_incoming, events, queue_outgoing, wire, applied, reader,
                 app, scan_state, scan_event, scanner, included, description, hist>>
  /\ UNCHANGED entVars

\* `for event in list(self._queue)`: the list is taken once
WriterSnapReversed ==
  /\ writer.pc = "snap"
  /\ writer' = [writer EXCEPT !.pc = "iter",
                  !.snap = [i \in 1..Len(queue_outgoing) |->
                              queue_outgoing[Len(queue_outgoing) + 1 - i]]]
  /\ UNCHANGED <<elkVars, elk_state, connected, update_in_progress, frames, stale,
                 queue_incoming, events, queue_outgoing, wire, applied, reader,
                 out_event, app, scan_state, scan_event, scanner, included,
                 description, hist>>
  /\ UNCHANGED entVars

WriterSnap ==
  /\ writer.pc = "snap"
  /\ writer' = [writer EXCEPT !.pc = "iter", !.snap = queue_outgoing]
  /\ UNCHANGED <<elkVars, elk_state, connected, update_in_progress, frames, stale,
                 queue_incoming, events, queue_outgoing, wire, applied, reader,
                 out_event, app, scan_state, scan_event, scanner, included,
                 description, hist>>
  /\ UNCHANGED entVars

\* One element of the list: a due event goes to elk_event_send_actual
\* (write_line), an event in the future is passed over; the end of the list
\* goes back to the top of the while loop.  Once stop() has set _connection
\* to None, `self._connection._connection_protocol` raises AttributeError
\* and the thread ends.
WriterIter ==
  /\ writer.pc = "iter"
  /\ IF writer.snap = <<>>
       THEN /\ writer' = [writer EXCEPT !.pc = "top"]
            /\ wire' = wire
       ELSE IF Due(events[Head(writer.snap)])
         THEN IF connected
           THEN /\ wire' = Append(wire, Head(writer.snap))
                /\ writer' = [writer EXCEPT !.pc = "remove", !.ev = Head(writer.snap)]
           ELSE /\ wire' = wire
                /\ writer' = [pc |-> "dead", snap |-> <<>>, ev |-> 0]
         ELSE /\ writer' = [writer EXCEPT !.snap = Tail(writer.snap)]
              /\ wire' = wire
  /\ UNCHANGED <<elkVars, elk_state, connected, update_in_progress, frames, stale,
                 queue_incoming, events, queue_outgoing, applied, reader,
                 out_event, app, scan_state, scan_event, scanner, included,
                 description, hist>>
  /\ UNCHANGED entVars

\* self._queue.remove(event): ValueError ends the thread when the event is
\* no longer queued
WriterRemove ==
  /\ writer.pc = "remove"
  /\ IF Contains(queue_outgoing, writer.ev)
       THEN /\ queue_outgoing' = Remove(queue_outgoing, writer.ev)
            /\ writer' = [writer EXCEPT !.pc = "requeue"]
       ELSE /\ queue_outgoing' = queue_outgoing
            /\ writer' = [pc |-> "dead", snap |-> <<>>, ev |-> 0]
  /\ UNCHANGED <<elkVars, elk_state, connected, update_in_progress, frames, stale,
                 queue_incoming, events, wire, applied, reader, out_event, app,
                 scan_state, scan_event, scanner, included, description, hist>>
  /\ UNCHANGED entVars

\* The retry: one retry less, time = now + retry_delay, back on the queue;
\* then time.sleep(interval) and the next element of the list.
WriterRequeue ==
  /\ writer.pc = "requeue"
  /\ IF NeedsRetry(events[writer.ev])
       THEN /\ events' = [events EXCEPT ![writer.ev].retries = @ - 1,
                                        ![writer.ev].time = events[writer.ev].retry_delay]
            /\ queue_outgoing' = Append(queue_outgoing, writer.ev)
       ELSE UNCHANGED <<events, queue_outgoing>>
  /\ writer' = [pc |-> "iter", snap |-> Tail(writer.snap), ev |-> 0]
  /\ UNCHANGED <<elkVars, elk_state, connected, update_in_progress, frames, stale,
                 queue_incoming, wire, applied, reader, out_event, app,
                 scan_state, scan_event, scanner, included, description, hist>>
  /\ UNCHANGED entVars

\* ------------------------------------------------------------------- time
\* One tick of time.time(): every outbound event not yet due comes one tick
\* closer.
Tick ==
  /\ \E c \in 1..Len(events) : events[c].time > 0
  /\ events' = [c \in 1..Len(events) |->
                  IF events[c].time > 0
                    THEN [events[c] EXCEPT !.time = @ - 1]
                    ELSE events[c]]
  /\ UNCHANGED <<elkVars, elk_state, connected, update_in_progress, frames, stale,
                 queue_incoming, queue_outgoing, wire, applied, reader, writer,
                 out_event, app, scan_state, scan_event, scanner, included,
                 description, hist>>
  /\ UNCHANGED entVars

\* ------------------------------------------------- inbound queue ageing
\* The oldest queued frame that was not yet older than 120 s becomes so
\* (event.age() > 120); frames age in the order they arrived.
Age ==
  /\ \E id \in Range(queue_incoming) \ stale :
       /\ \A other \in Range(queue_incoming) \ stale : id <= other
       /\ stale' = stale \cup {id}
  /\ UNCHANGED <<elkVars, elk_state, connected, update_in_progress, frames,
                 queue_incoming, events, queue_outgoing, wire, applied, reader,
                 writer, out_event, app, scan_state, scan_event, scanner,
                 included, description, hist>>
  /\ UNCHANGED entVars

\* ------------------------------------------------------------ Scanner.run
\* What the rescan thread never touches
scannerFrame ==
  <<unpaused_status, connected, elkrp_connected, update_in_progress, frames,
    wire, reader, writer, app, included>>

\* Event(): a request of the scanner with the default retry fields
Request(t) ==
  [type |-> t, time |-> 0, retries |-> 0, expect |-> <<>>,
   retry_delay |-> DefaultRetryDelay]

\* Thermostat.request_omni_register: a t2 request for thermostat n; expect
\* starts with format(number + 127, '02x')
OmniRequest(n) ==
  [type |-> "t2", time |-> 0, retries |-> OmniRetries,
   expect |-> <<"8", Digits[n]>>, retry_delay |-> OmniRetryDelay]

\* `for node_index in range(0, MAX): if included: <requests>`
RECURSIVE ForIncluded(_, _, _)
ForIncluded(c, n, reqs) ==
  IF n > ClassCount THEN <<>>
  ELSE (IF n \in included[c] THEN reqs ELSE <<>>) \o ForIncluded(c, n + 1, reqs)

RECURSIVE ThermostatRequests(_)
ThermostatRequests(n) ==
  IF n > ClassCount THEN <<>>
  ELSE (IF n \in included["thermostat"] THEN <<Request("ts"), OmniRequest(n)>> ELSE <<>>)
         \o ThermostatRequests(n + 1)

\* The class a scan state works on
StageClass(st) ==
  CASE st = "Zones" -> "zone"
    [] st = "Outputs" -> "output"
    [] st = "Areas" -> "area"
    [] st = "Keypads" -> "keypad"
    [] st = "Tasks" -> "task"
    [] st = "Thermostats" -> "thermostat"
    [] st = "X10" -> "x10"
    [] st = "Users" -> "user"
    [] st = "Counters" -> "counter"
    [] st = "Settings" -> "setting"

\* The requests scan_<class> sends before it asks for descriptions (for
\* scan_zones: after its ZS and ZD waits; no zone is an analog or a
\* temperature zone, so no zv or st request is sent for zones).
StageRequests(st) ==
  CASE st = "Zones" -> <<Request("az"), Request("zp")>>
    [] st = "Outputs" -> <<Request("cs")>>
    [] st = "Areas" -> <<Request("as")>>
    [] st = "Keypads" -> <<Request("ka")>> \o ForIncluded("keypad", 1, <<Request("kc"), Request("st")>>)
    [] st = "Tasks" -> <<>>
    [] st = "Thermostats" -> ThermostatRequests(1)
    [] st = "X10" -> IF included["x10"] # {} THEN <<Request("ps")>> ELSE <<>>
    [] st = "Users" -> <<>>
    [] st = "Counters" -> ForIncluded("counter", 1, <<Request("cv")>>)
    [] st = "Settings" -> <<Request("cp")>>

\* elk_event_send for each of reqs in turn: dropped while ElkRP is connected,
\* else appended to the outbound queue and the writer resumed.
ScanSend(reqs) ==
  IF elkrp_connected \/ reqs = <<>>
    THEN UNCHANGED <<events, queue_outgoing, out_event>>
    ELSE /\ events' = events \o reqs
         /\ queue_outgoing' = queue_outgoing \o [i \in 1..Len(reqs) |-> Len(events) + i]
         /\ out_event' = TRUE

\* run, `self._pyelk.state = self._pyelk.STATE_RUNNING`: the new
\* (status, elk_state)
IdleAssign == [status |-> status, elk_state |-> STATE_RUNNING]

\* run at Idle, up to the wait: assign state, clear the event
ScanIdle ==
  /\ scanner.pc = "top"
  /\ scan_state = "Idle"
  /\ status' = IdleAssign.status
  /\ elk_state' = IdleAssign.elk_state
  /\ scan_event' = FALSE
  /\ scanner' = [scanner EXCEPT !.pc = "idle_wait"]
  /\ UNCHANGED <<scannerFrame, stale, queue_incoming, events, queue_outgoing,
                 applied, out_event, scan_state, description, hist>>
  /\ UNCHANGED entVars

\* self._event.wait() returns; no branch matches Idle; _state = SCAN_NEXT[_state]
ScanWake ==
  /\ scanner.pc = "idle_wait"
  /\ scan_event
  /\ scan_state' = SCAN_NEXT[scan_state]
  /\ scanner' = [scanner EXCEPT !.pc = "top"]
  /\ hist' = [hist EXCEPT !.ie_pending = FALSE]
  /\ UNCHANGED <<scannerFrame, status, elk_state, stale, queue_incoming, events,
                 queue_outgoing, applied, out_event, scan_event, description>>
  /\ UNCHANGED entVars

\* run at a state other than Idle, up to the first wait of its scan_*:
\* Start only logs, scan_zones sends zs and waits for ZS, scan_version sends
\* vn, the others send their requests and enter the description loop.
ScanStage ==
  /\ scanner.pc = "top"
  /\ scan_state # "Idle"
  /\ IF scan_state = "Start"
       THEN /\ scan_state' = SCAN_NEXT[scan_state]
            /\ UNCHANGED <<scanner, events, queue_outgoing, out_event, hist>>
       ELSE IF scan_state = "Version"
         THEN /\ ScanSend(<<Request("vn")>>)
              /\ scan_state' = SCAN_NEXT[scan_state]
              /\ hist' = [hist EXCEPT !.scanned = TRUE]
              /\ UNCHANGED scanner
         ELSE IF scan_state = "Zones"
           THEN /\ ScanSend(<<Request("zs")>>)
                /\ scanner' = [scanner EXCEPT !.pc = "wait", !.wait = "ZS", !.polled = FALSE]
                /\ UNCHANGED <<scan_state, hist>>
           ELSE /\ ScanSend(StageRequests(scan_state))
                /\ scanner' = [scanner EXCEPT !.pc = "desc", !.desc_index = 1]
                /\ UNCHANGED <<scan_state, hist>>
  /\ UNCHANGED <<scannerFrame, status, elk_state, stale, queue_incoming, applied,
                 scan_event, description>>
  /\ UNCHANGED entVars

\* elk_event_scan: the first queued frame of the awaited kind, 0 if none
ScanMatch(kind) ==
  IF \E i \in 1..Len(queue_incoming) : frames[queue_incoming[i]].type = kind
    THEN queue_incoming[CHOOSE i \in 1..Len(queue_incoming) :
                          /\ frames[queue_incoming[i]].type = kind
                          /\ \A k \in 1..(i - 1) : frames[queue_incoming[k]].type # kind]
    ELSE 0

\* get_description after the wait: the new desc_index for a reply (0 is False)
DescNext(reply, number) ==
  IF reply = 0 THEN 0
  ELSE LET reply_number == ParseInt(SubSeq(frames[reply].data, 3, 5))
       IN IF reply_number >= number THEN reply_number + 1 ELSE 0

\* get_description: the descriptions after a reply; the entity is chosen by
\* the reply's own type field
DescApply(reply, number) ==
  IF reply = 0 THEN description
  ELSE LET reply_type == SubSeq(frames[reply].data, 1, 2)
           reply_number == ParseInt(SubSeq(frames[reply].data, 3, 5))
       IN [c \in Classes |->
             IF reply_number >= number /\ DescriptionType[c] = reply_type
               THEN description[c] \cup {reply_number}
               ELSE description[c]]

\* What scan_* does once a wait has ended with `reply` (0: timed out)
AfterWait(reply) ==
  CASE scanner.wait = "ZS" ->
         /\ applied' = IF reply # 0 THEN Append(applied, reply) ELSE applied
         /\ ScanSend(<<Request("zd")>>)
         /\ scanner' = [scanner EXCEPT !.wait = "ZD", !.polled = FALSE]
         /\ UNCHANGED description
    [] scanner.wait = "ZD" ->
         /\ applied' = IF reply # 0 THEN Append(applied, reply) ELSE applied
         /\ ScanSend(StageRequests(scan_state))
         /\ scanner' = [scanner EXCEPT !.pc = "desc", !.wait = "", !.desc_index = 1,
                                       !.polled = FALSE]
         /\ UNCHANGED description
    [] scanner.wait = "SD" ->
         /\ description' = DescApply(reply, scanner.desc_index)
         /\ scanner' = [scanner EXCEPT !.pc = "desc", !.wait = "", !.polled = FALSE,
                                       !.desc_index = DescNext(reply, scanner.desc_index)]
         /\ UNCHANGED <<applied, events, queue_outgoing, out_event>>

\* elk_event_scan, one pass over list(queue): a frame of the awaited kind is
\* removed from the inbound queue and returned; otherwise the loop sleeps.
ScanPoll ==
  /\ scanner.pc = "wait"
  /\ LET reply == ScanMatch(scanner.wait)
     IN IF reply # 0
          THEN /\ queue_incoming' = Remove(queue_incoming, reply)
               /\ stale' = stale \ {reply}
               /\ AfterWait(reply)
          ELSE /\ ~scanner.polled
               /\ scanner' = [scanner EXCEPT !.polled = TRUE]
               /\ UNCHANGED <<queue_incoming, stale, applied, events, queue_outgoing,
                              out_event, description>>
  /\ UNCHANGED <<scannerFrame, status, elk_state, scan_state, scan_event, hist>>
  /\ UNCHANGED entVars

\* elk_event_scan, `while time.time() <= endtime` fails after at least one pass
TimedOutNever == FALSE

TimedOut == scanner.polled

ScanTimeout ==
  /\ scanner.pc = "wait"
  /\ TimedOut
  /\ AfterWait(0)
  /\ hist' = [hist EXCEPT !.timeouts = @ \cup {scanner.wait}]
  /\ UNCHANGED <<scannerFrame, status, elk_state, stale, queue_incoming,
                 scan_state, scan_event>>
  /\ UNCHANGED entVars

\* The description loop of scan_*: `while desc_index and desc_index <= MAX`,
\* then back in run: _state = SCAN_NEXT[_state]
ScanDesc ==
  /\ scanner.pc = "desc"
  /\ IF scanner.desc_index = 0 \/ scanner.desc_index > ClassCount
       THEN /\ scan_state' = SCAN_NEXT[scan_state]
            /\ scanner' = [scanner EXCEPT !.pc = "top", !.desc_index = 0]
            /\ UNCHANGED <<events, queue_outgoing, out_event>>
       ELSE IF scanner.desc_index \in included[StageClass(scan_state)]
         THEN /\ ScanSend(<<Request("sd")>>)
              /\ scanner' = [scanner EXCEPT !.pc = "wait", !.wait = "SD", !.polled = FALSE]
              /\ UNCHANGED scan_state
         ELSE /\ scanner' = [scanner EXCEPT !.desc_index = @ + 1]
              /\ UNCHANGED <<scan_state, events, queue_outgoing, out_event>>
  /\ UNCHANGED <<scannerFrame, status, elk_state, stale, queue_incoming, applied,
                 scan_event, description, hist>>
  /\ UNCHANGED entVars


\* ---------------------------------------------------------- specification
\* The outbound side: the application sends, the writer transmits, the panel's
\* frames are dispatched; the rescan thread is not scheduled.
Next ==
  \/ ConnectStart
  \/ ConnectDone
  \/ \E f \in OutFrames : ElkEventEnqueue(f)
  \/ Dispatch
  \/ \E t \in CmdTemplates : ElkEventSend(t)
  \/ ElkEventSendAppend
  \/ WriterStart
  \/ WriterTop
  \/ WriterWait
  \/ WriterClear
  \/ WriterSnap
  \/ WriterIter
  \/ WriterRemove
  \/ WriterRequeue
  \/ Tick

Spec == Init /\ [][Next]_vars

\* The rescan side: the panel's frames are dispatched while the rescan thread
\* runs; the requests of the scanner are queued, the writer is not scheduled,
\* and no frame stays queued for 120 s.
ScanConfigs ==
  {[c \in Classes |-> 1..ClassCount],
   [c \in Classes |-> IF c = "zone" THEN 1..ClassCount ELSE {}]}

InitScan == InitElk /\ InitEntities /\ included \in ScanConfigs

ScannerStep ==
  \/ ScanIdle
  \/ ScanWake
  \/ ScanStage
  \/ ScanPoll
  \/ ScanTimeout
  \/ ScanDesc

NextScan ==
  \/ ConnectStart
  \/ ConnectDone
  \/ \E f \in ScanFrames : ElkEventEnqueue(f)
  \/ Dispatch
  \/ ScannerStep

SpecScan == InitScan /\ [][NextScan]_vars

\* The rescan side with frames that may wait in the inbound queue for more
\* than 120 s
NextBlacklist ==
  \/ ConnectStart
  \/ ConnectDone
  \/ \E f \in ScanFrames : ElkEventEnqueue(f)
  \/ Dispatch
  \/ Age
  \/ ScannerStep

SpecBlacklist == InitScan /\ [][NextBlacklist]_vars

\* A panel that answers no request, with frames that may wait in the inbound
\* queue for more than 120 s.  The rescan thread is a thread of its own: it
\* takes its next step whenever it is not blocked in _event.wait(), and the
\* clock of its timeouts advances.
NextNoReply ==
  \/ ConnectStart
  \/ ConnectDone
  \/ \E f \in NoReplyFrames : ElkEventEnqueue(f)
  \/ Dispatch
  \/ Age
  \/ ScannerStep

SpecNoReply == InitScan /\ [][NextNoReply]_vars /\ WF_vars(ScannerStep)

\* The codec: an event is built, written with to_string and parsed back
InitCodecSpec == InitElk /\ InitCodec /\ InitZones /\ InitArming /\ InitWalk /\ InitX10 /\ InitTemps /\ InitSnapshot /\ InitIncl /\ InitStop /\ InitMut /\ InitNodes /\ InitSettings /\ included = [c \in Classes |-> 1..ClassCount]

NextCodec ==
  \/ CodecToString
  \/ CodecParse

SpecCodec == InitCodecSpec /\ [][NextCodec]_vars

\* Zone status: the panel sends ZS reports and ZC updates carrying any nibble
HexChars == Range(HexDigits)

NextNibble ==
  \/ \E data \in [Zones -> HexChars] : DispatchZS(data)
  \/ \E n \in Zones, ch \in HexChars : DispatchZC(Format03(n) \o <<ch>>)

SpecNibble == Init /\ [][NextNibble]_vars

\* Zone partitions: ZP reports and restores of a fast load file whose zones
\* carry any area
PartitionChars == {Digits[a + 1] : a \in 0..AreaCount}

SavedPartition ==
  {[NewZone EXCEPT !.area = a, !.state = st] :
     a \in {None} \cup (0..AreaCount), st \in {None, 1}}

NextPartition ==
  \/ \E data \in [Zones -> PartitionChars] : DispatchZP(data)
  \/ \E saved \in [Zones -> SavedPartition] : ElkStateLoad(saved)

SpecPartition == Init /\ [][NextPartition]_vars

\* Zone frames and restores: state Unconfigured or Open, definition Disabled
\* or Burglar 1, alarm Disabled or Burglar 1
TwoChars == {"0", "1"}

SavedEnabled ==
  {NewZone,
   [state |-> 1, status |-> 0, definition |-> 1, alarm |-> 0, temp |-> -460,
    area |-> 1, enabled |-> TRUE],
   [state |-> 0, status |-> 0, definition |-> 0, alarm |-> 0, temp |-> -460,
    area |-> 1, enabled |-> TRUE],
   [state |-> 1, status |-> 0, definition |-> None, alarm |-> None, temp |-> -460,
    area |-> None, enabled |-> TRUE]}

NextEnabled ==
  \/ \E data \in [Zones -> TwoChars] : DispatchZS(data)
  \/ \E n \in Zones, ch \in TwoChars : DispatchZC(Format03(n) \o <<ch>>)
  \/ \E data \in [Zones -> TwoChars] : DispatchZD(data)
  \/ \E data \in [Zones -> TwoChars] : DispatchAZ(data)
  \/ \E data \in [Zones -> {"1"}] : DispatchZP(data)
  \/ \E n \in Zones : DispatchST(<<"0">> \o SubSeq(Format03(n), 2, 3) \o <<"1", "3", "0">>)
  \/ \E saved \in [Zones -> SavedEnabled] : ElkStateLoad(saved)

SpecEnabled == Init /\ [][NextEnabled]_vars

\* Arming: the panel sends KA, IC and AS frames 0.3 s or 1.0 s apart.  Elk is
\* constructed without a fast load file, or with one that assigns keypad k to
\* area k (Keypad.state_load).
RestoredKeypads ==
  /\ keypads = [k \in Keypads |-> [NewKeypad EXCEPT !.area = k]]
  /\ member_keypad = [a \in Areas |-> [k \in Keypads |-> a = k]]

InitArmingSpec ==
  /\ InitElk /\ included = [c \in Classes |-> 1..ClassCount]
  /\ codec = CodecIdle /\ InitZones /\ InitWalk /\ InitX10 /\ InitTemps /\ InitSnapshot /\ InitIncl /\ InitStop /\ InitMut /\ InitNodes /\ InitSettings
  /\ areas = [a \in Areas |-> NewArea]
  /\ now = StartClock
  /\ unpack_raised = FALSE
  /\ alast = NoArmFrame
  /\ \/ RestoredKeypads
     \/ /\ keypads = [k \in Keypads |-> NewKeypad]
        /\ member_keypad = [a \in Areas |-> [k \in Keypads |-> FALSE]]

AreaChars == {Digits[a + 1] : a \in 0..AreaCount}

\* IC: code accepted (twelve zeros), user 005 or an invalid code (000)
ICFrame(u, k) ==
  [i \in 1..12 |-> "0"] \o u \o SubSeq(Format03(k), 2, 3)

\* AS: status Disarmed, Armed Away or Armed Stay per area, arm-up 1, alarm 0
ASFrame(st) == st \o [a \in Areas |-> "1"] \o [a \in Areas |-> "0"]

NextArming ==
  \/ \E data \in [Keypads -> AreaChars], d \in Delays : DispatchKA(data, d)
  \/ \E u \in {<<"0", "0", "0">>, <<"0", "0", "5">>}, k \in Keypads, d \in Delays :
        DispatchIC(ICFrame(u, k), d)
  \/ \E st \in [Areas -> {"0", "1", "2"}], d \in Delays : DispatchAS(ASFrame(st), d)

SpecArming == InitArmingSpec /\ [][NextArming]_vars

\* The description loop of scan_zones against a panel that has names for some
\* of the zones; every zone is included, or every zone but the second.
InitWalkSpec ==
  /\ InitElk /\ included = [c \in Classes |-> 1..ClassCount]
  /\ codec = CodecIdle /\ InitZones /\ InitArming /\ InitX10 /\ InitTemps /\ InitSnapshot /\ InitIncl /\ InitStop /\ InitMut /\ InitNodes /\ InitSettings
  /\ \E named \in SUBSET (1..DescMax), inc \in {1..DescMax, (1..DescMax) \ {2}} :
        walk = WalkStart(named, inc)

NextWalk ==
  \/ WalkLoop
  \/ PanelDescribe
  \/ WalkReply
  \/ WalkTimeout

SpecWalk == InitWalkSpec /\ [][NextWalk]_vars

\* The rescan thread runs the description loop on: the panel answers or
\* elk_event_scan times out, and the loop takes its next turn
SpecWalkFair == InitWalkSpec /\ [][NextWalk]_vars /\ WF_vars(NextWalk)

\* PS replies: bank b, every unit Off but the one at position k, or all Off
PSBanks == 0..3
PSPositions == {0, 2, 3, 63}
PSValues == {"0", "1", "5"}
PSDelays == {8, 16}

PSFrame(b, k, v) == <<Digits[b + 1]>> \o [i \in 1..64 |-> IF i = k + 1 THEN v ELSE "0"]

NextX10 ==
  \E b \in PSBanks, k \in PSPositions, v \in PSValues, d \in PSDelays :
    DispatchPS(PSFrame(b, k, v), d)

SpecX10 == Init /\ [][NextX10]_vars

\* ST replies: group 0, 1 or 2, entity 0 (none), 1 or 2, raw value 000, 070 or 200
STRaws == {0, 70, 200}

STFrame(g, n, r) == <<Digits[g + 1]>> \o SubSeq(Format03(n), 2, 3) \o Format03(r)

NextTemp ==
  \E g \in 0..2, n \in 0..2, r \in STRaws : DispatchST(STFrame(g, n, r))

SpecTemp == Init /\ [][NextTemp]_vars

\* Saving and restoring: reports for the areas, keypads, zones, temperatures and
\* X10 devices arrive, then the state is saved and loaded into a new model.
SnapshotDelays == {5}

NextSnapshot ==
  \/ /\ ~snapshot.done
     /\ \/ \E d \in SnapshotDelays : DispatchKA([k \in Keypads |-> "1"], d)
        \/ \E u \in {<<"0", "0", "0">>, <<"0", "0", "5">>}, d \in SnapshotDelays :
              DispatchIC(ICFrame(u, 1), d)
        \/ \E d \in SnapshotDelays : DispatchAS(ASFrame([a \in Areas |-> "1"]), d)
        \/ DispatchZS([n \in Zones |-> "1"])
        \/ DispatchZD([n \in Zones |-> "1"])
        \/ DispatchAZ([n \in Zones |-> "0"])
        \/ DispatchZP([n \in Zones |-> "1"])
        \/ \E g \in 0..2 : DispatchST(STFrame(g, 1, 70))
        \/ \E d \in SnapshotDelays : DispatchPS(PSFrame(0, 3, "5"), d)
  \/ SnapshotRoundTrip

SpecSnapshot == Init /\ [][NextSnapshot]_vars

\* Construction with an include list of up to two tokens and an exclude list
\* of up to one token, each list present or absent
Tokens ==
  {<<Digits[k + 1]>> : k \in 1..IncludeMax}
    \cup {<<Digits[a + 1], "-", Digits[b + 1]>> : a \in 1..IncludeMax, b \in 1..IncludeMax}

TokenLists(n) == UNION {[1..m -> Tokens] : m \in 0..n}

InitInclSpec ==
  /\ InitElk /\ included = [c \in Classes |-> 1..ClassCount]
  /\ codec = CodecIdle /\ InitZones /\ InitArming /\ InitWalk /\ InitX10 /\ InitTemps
  /\ InitSnapshot /\ InitStop /\ InitMut /\ InitNodes /\ InitSettings
  /\ \E hi \in BOOLEAN, he \in BOOLEAN :
       \E inc \in (IF hi THEN TokenLists(2) ELSE {<<>>}),
          exc \in (IF he THEN TokenLists(1) ELSE {<<>>}) :
         incl = [NoConfig EXCEPT !.has_include = hi, !.include = inc,
                                 !.has_exclude = he, !.exclude = exc]

NextIncl == Construct

SpecIncl == InitInclSpec /\ [][NextIncl]_vars

\* Shutdown: the application sends commands and calls stop() once; the panel
\* is silent and the connection is not opened again.
NextStop ==
  \/ ~stopping /\ ConnectStart
  \/ ConnectDone
  \/ \E t \in CmdTemplates : ElkEventSend(t)
  \/ ElkEventSendAppend
  \/ WriterStart
  \/ WriterTop
  \/ WriterWait
  \/ WriterClear
  \/ WriterSnap
  \/ WriterIter
  \/ WriterRemove
  \/ WriterRequeue
  \/ Tick
  \/ Stop

SpecStop == Init /\ [][NextStop]_vars

\* The threads that assign zones: dispatch passes of the reader thread and of
\* an application thread over queued ZC frames, and scan_zones
NextMut ==
  \/ \E t \in PassThreads : PassCheck(t)
  \/ \E t \in PassThreads : PassSet(t)
  \/ \E t \in PassThreads, n \in Zones : PassUnpack(t, n)
  \/ \E t \in PassThreads : PassUnpacked(t)
  \/ \E t \in PassThreads : PassEnd(t)
  \/ ScanZonesStep

SpecMut == Init /\ [][NextMut]_vars

\* Construction of the entity lists and the commands entities issue
NextNodes ==
  \/ ConstructNodes
  \/ \E c \in CommandClasses, pos \in 0..(NodeCount - 1) : IssueCommand(c, pos)

SpecNodes == Init /\ [][NextNodes]_vars

\* CR replies: every setting at once with one non-zero group, or one setting
CRValues == {<<"0", "0", "0", "0", "5">>, <<"0", "0", "0", "1", "7">>}
CRNumbers == {1, 2, 9, 10, 20}
CRFormats == {"0", "1"}

RECURSIVE Concat(_)
Concat(groups) ==
  IF groups = <<>> THEN <<>> ELSE Head(groups) \o Concat(Tail(groups))

CRAll(k, v) ==
  <<"0", "0">> \o Concat([i \in Settings |->
                            IF i = k THEN v \o <<"1">>
                            ELSE <<"0", "0", "0", "0", "0", "0">>])

CROne(n, v, f) == Format02(n) \o v \o <<f>>

NextSettings ==
  \/ \E k \in CRNumbers, v \in CRValues : DispatchCR(CRAll(k, v))
  \/ \E n \in CRNumbers, v \in CRValues, f \in CRFormats : DispatchCR(CROne(n, v, f))

SpecSettings == Init /\ [][NextSettings]_vars

\* The retry budget: commands with and without retries and expect are issued
\* to a panel that sends nothing; the writer thread runs whenever it is not
\* blocked in _event.wait(), elk_event_send runs to its end, and time passes.
RetryTemplates ==
  {[type |-> "cs", delay |-> 0, retries |-> 0, expect |-> <<>>],
   [type |-> "sd", delay |-> 0, retries |-> 0, expect |-> <<"S", "D">>],
   [type |-> "ts", delay |-> DelayIncrement, retries |-> RetryBudget, expect |-> <<>>],
   [type |-> "as", delay |-> 0, retries |-> 1, expect |-> <<"A", "S">>],
   [type |-> "zs", delay |-> 0, retries |-> RetryBudget, expect |-> <<"Z", "S">>]}

WriterStep ==
  \/ WriterStart
  \/ WriterTop
  \/ WriterWait
  \/ WriterClear
  \/ WriterSnap
  \/ WriterIter
  \/ WriterRemove
  \/ WriterRequeue

NextRetry ==
  \/ ConnectStart
  \/ ConnectDone
  \/ \E t \in RetryTemplates : ElkEventSend(t)
  \/ ElkEventSendAppend
  \/ WriterStep
  \/ Tick

SpecRetry ==
  Init /\ [][NextRetry]_vars
    /\ WF_vars(WriterStep) /\ WF_vars(Tick) /\ WF_vars(ElkEventSendAppend)

\* The outbound side with a panel that answers and no ElkRP session: the
\* application issues commands, the panel's replies are enqueued and
\* dispatched, the writer thread and the clock run on.
ReplyFrames == OutFrames \ RPFrames

NextAccepted ==
  \/ ConnectStart
  \/ ConnectDone
  \/ \E f \in ReplyFrames : ElkEventEnqueue(f)
  \/ Dispatch
  \/ \E t \in CmdTemplates : ElkEventSend(t)
  \/ ElkEventSendAppend
  \/ WriterStep
  \/ Tick

SpecAccepted ==
  Init /\ [][NextAccepted]_vars
    /\ WF_vars(WriterStep) /\ WF_vars(Tick) /\ WF_vars(ElkEventSendAppend)
    /\ WF_vars(Dispatch)

\* ------------------------------------------------------------------ claims
\* C1: a command issued through elk_event_send between the dispatch of an
\* RP(1)/RP(2) frame and the dispatch of the next RP(0) frame is never placed
\* on the outbound queue and never passed to the transport.
C1_PausedCommandNotSent ==
  \A c \in hist.rp_issued :
    ~Contains(queue_outgoing, c) /\ ~Contains(wire, c) /\ app.ev # c

\* A command was issued during the pause while an earlier one was accepted.
C1_Witness ==
  /\ hist.rp_window
  /\ hist.rp_issued # {}
  /\ Len(hist.accepted) > 0

\* C2 (as stated): a command with expect = "AS" and retries > 0 that has been
\* transmitted, and for which an AS frame is enqueued before its retry delay
\* elapses, is transmitted exactly once.
C2_RepliedSentOnce == \A c \in hist.reply_in_time : Count(wire, c) <= 1

\* C3 (as stated): for commands A and B accepted in this order, the first
\* transmission of A precedes the first transmission of B.
C3_EnqueueOrder ==
  \A i, j \in 1..Len(hist.accepted) :
    (i < j /\ Contains(wire, hist.accepted[i]) /\ Contains(wire, hist.accepted[j]))
      => FirstIndex(wire, hist.accepted[i]) < FirstIndex(wire, hist.accepted[j])

\* C3 (amended): the order holds when A's earliest send time is not in the
\* future at the time it is enqueued (A was not delayed with Event.delay).
C3_EnqueueOrderUndelayed ==
  \A i, j \in 1..Len(hist.accepted) :
    (/\ i < j
     /\ hist.accepted[i] \notin hist.delayed
     /\ Contains(wire, hist.accepted[i])
     /\ Contains(wire, hist.accepted[j]))
      => FirstIndex(wire, hist.accepted[i]) < FirstIndex(wire, hist.accepted[j])

\* Two accepted commands, the first one not delayed, both transmitted, and the
\* first one retransmitted after the second.
C3_Witness ==
  /\ Len(hist.accepted) = 2
  /\ hist.accepted[1] \notin hist.delayed
  /\ Contains(wire, hist.accepted[2])
  /\ Count(wire, hist.accepted[1]) = 2
  /\ wire[Len(wire)] = hist.accepted[1]

\* C4 (as stated): the frames that carry zone status (ZS reports and ZC
\* updates) are applied to the zones in the order the panel emitted them, ZS
\* frames received during a rescan included: a zone status report is never
\* applied after a zone update that the panel sent later.
C4_AppliedInPanelOrder ==
  \A i, j \in 1..Len(applied) :
    (/\ i < j
     /\ frames[applied[i]].type \in {"ZS", "ZC"}
     /\ frames[applied[j]].type \in {"ZS", "ZC"}) => applied[i] < applied[j]

\* C5 (as stated): the resume signal of a dispatched IE frame is never lost:
\* the scanner never sits in its idle wait, the event clear, while the rescan
\* an IE frame asked for has not started.
C5_RescanNeverLost ==
  ~(hist.ie_pending /\ scanner.pc = "idle_wait" /\ ~scan_event)

\* C6: the scanner state changes only to its successor on the cycle Idle,
\* Start, Zones, Outputs, Areas, Keypads, Tasks, Thermostats, X10, Users,
\* Counters, Settings, Version, Idle, and leaves Idle only with the resume
\* signal set.
C6_ScanCycle ==
  [][scan_state' # scan_state =>
       /\ \E i \in 1..13 :
            LET cycle == <<"Idle", "Start", "Zones", "Outputs", "Areas", "Keypads",
                           "Tasks", "Thermostats", "X10", "Users", "Counters",
                           "Settings", "Version">>
            IN scan_state = cycle[i] /\ scan_state' = cycle[(i % 13) + 1]
       /\ scan_state = "Idle" => scan_event]_vars

\* A scan has gone round the whole cycle and a second one is under way.
C6_Witness == hist.scanned /\ scan_state = "Version"

\* C7 (as stated): when the scanner, having completed Version, is back at
\* Idle and has made its assignment there, the runtime state is Running.
C7_RunningAfterScan ==
  [][(/\ hist.scanned
      /\ scan_state = "Idle"
      /\ scanner.pc = "top"
      /\ scanner'.pc = "idle_wait") => status' = STATE_RUNNING]_vars

\* C8: with a panel that answers no request, every scan state other than Idle
\* is followed by its successor, so a scan that has started reaches Idle.
C8_ScanTerminates ==
  \A st \in ScanStates \ {"Idle"} : (scan_state = st) ~> (scan_state = SCAN_NEXT[st])

\* A scan is over in which the waits for ZS, ZD and SD all timed out.
C8_Witness ==
  /\ hist.scanned
  /\ scan_state = "Idle"
  /\ hist.timeouts = {"ZS", "ZD", "SD"}

\* C9 (as stated): from the dispatch of an RP(1)/RP(2) frame until the dispatch
\* of the next RP(0) frame the runtime state is Paused.
C9_PausedLatched == hist.rp_window => status = STATE_PAUSED

\* C10 (as stated): after RP(0) has been dispatched, and until the next
\* RP(1)/RP(2), the ElkRP flag is clear and RP(0) restored the runtime state
\* that held before the pause; a command issued then is accepted and can still be
\* transmitted: it is never left on the queue of a writer that has ended.
C10_ResumeAfterRP0 ==
  /\ (hist.rp0_seen /\ ~hist.rp_window) =>
       /\ ~elkrp_connected
       /\ hist.rp0_restored
  /\ \A c \in hist.after_rp0 :
       /\ c \notin hist.rp_issued => (app.ev = c \/ c \in Range(hist.accepted))
       /\ ~(Contains(queue_outgoing, c) /\ writer.pc = "dead")

\* C11 (as stated): a frame whose checksum field differs from the checksum
\* computed over the rest of the frame is not on the inbound queue, has not
\* been unpacked into an entity, and has cancelled no pending retry.
C11_BadChecksumDropped ==
  \A id \in 1..Len(frames) :
    ~ChecksumCheck(FrameEvent(frames[id])) =>
      /\ ~Contains(queue_incoming, id)
      /\ ~Contains(applied, id)
      /\ id \notin hist.cancelled_by

\* C12 (as stated): the checksum to_string puts on a frame is
\* (((sum of the character codes of the body) mod 256) XOR 0xFF) + 1,
\* truncated to 8 bits and written as exactly two uppercase hex digits.
C12_ChecksumTwoHexDigits ==
  codec.stage \in {"sent", "parsed"} =>
    LET e == codec.event
        body == e.len \o e.type \o e.data_str \o e.reserved
    IN /\ Len(e.checksum) = 2
       /\ e.checksum = Format02X((Xor255(SumOrd(body) % 256) + 1) % 256)

\* C13 (as stated): parsing the string to_string produced gives an event with
\* the same type tag and the same payload. Frames whose checksum is not of two
\* digits (C12) are left aside, so that a violation is the codec's own.
C13_RoundTrip ==
  (codec.stage = "parsed" /\ Len(codec.event.checksum) = 2) =>
    /\ codec.back.type = codec.event.type
    /\ codec.back.data_str = Payload(codec.event)

\* C14 (as stated): for every area a and zone i, a.member_zone[i] is true
\* exactly when the zone's area is a; a zone of partition 0 is in no area.
C14_MemberZoneInverse ==
  \A a \in Areas, n \in Zones : member_zone[a][n] <=> (zones[n].area = a)

\* The value of a hex digit
HexValue(ch) == (CHOOSE i \in 1..16 : HexDigits[i] = ch) - 1

\* C19: after a ZS report every zone, and after a ZC update the zone it names,
\* has state = d & 0b11 and status = (d >> 2) & 0b11, d being the hex value of
\* the zone's status character; so both handlers decode alike.
C19_NibbleUnpacking ==
  /\ zlast.kind = "ZS" =>
       \A n \in Zones :
         /\ zones[n].state = HexValue(zlast.data[n]) % 4
         /\ zones[n].status = (HexValue(zlast.data[n]) \div 4) % 4
  /\ zlast.kind = "ZC" =>
       LET n == ParseInt(SubSeq(zlast.data, 1, 3))
       IN /\ zones[n].state = HexValue(zlast.data[4]) % 4
          /\ zones[n].status = (HexValue(zlast.data[4]) \div 4) % 4

\* A ZC update with nibble C left zone 1 with state 0 and status Bypassed,
\* as the ZS report before it had left zone 2.
C19_Witness ==
  /\ zlast = [kind |-> "ZC", data |-> <<"0", "0", "1", "C">>]
  /\ zones[1].state = 0 /\ zones[1].status = STATUS_BYPASSED
  /\ zones[2].state = 0 /\ zones[2].status = STATUS_BYPASSED

\* C20: a zone is enabled exactly when its state, definition and alarm are
\* all known and it is not both Unconfigured and Disabled.
C20_ZoneEnabled ==
  \A n \in Zones :
    zones[n].enabled <=>
      /\ zones[n].state # None /\ zones[n].definition # None /\ zones[n].alarm # None
      /\ ~(zones[n].state = STATE_UNCONFIGURED /\ zones[n].definition = DEFINITION_DISABLED)

\* Zone 1 is enabled and zone 2, whose fields are all known, is not: it is
\* Unconfigured and Disabled.
C20_Witness ==
  /\ zones[1].enabled
  /\ zones[2].alarm # None
  /\ zones[2].state = STATE_UNCONFIGURED /\ zones[2].definition = DEFINITION_DISABLED
  /\ ~zones[2].enabled

C16_ArmAwayScenario ==
  ( /\ alast.kind = "AS"
    /\ alast.time = 13
    /\ alast.data = ASFrame([a \in Areas |-> "2"])
    /\ alast.ic_data = ICFrame(<<"0", "0", "5">>, 2)
    /\ alast.ic_at[2] = 10
    /\ keypads[2].area = 2 ) =>
      /\ areas[2].status = STATUS_ARMED_AWAY
      /\ areas[2].last_user_num = 5
      /\ areas[2].last_armed_at = 13
      /\ keypads[2].last_user_num = 5

\* C17 (as stated): with every zone included and a panel that has names for
\* zones 1, 3 and 7 only and answers each request, the description loop of
\* scan_zones issues exactly three requests: 001, 004 and 008.
C17_SkipEmptyScenario ==
  (/\ walk.pc = "done" /\ ~walk.timed_out
   /\ walk.named = {1, 3, 7} /\ walk.included = 1..DescMax)
    => walk.requests = <<DescriptionRequest(1), DescriptionRequest(4),
                         DescriptionRequest(8)>>

\* C17 (amended): in that scenario the loop issues exactly four requests:
\* 001 (answered with zone 1), 002 (answered with zone 3), 004 (answered with
\* zone 7) and 008 (answered with 000), and names zones 1, 3 and 7.
C17_SkipEmptyFour ==
  (/\ walk.pc = "done" /\ ~walk.timed_out
   /\ walk.named = {1, 3, 7} /\ walk.included = 1..DescMax)
    => /\ walk.requests = <<DescriptionRequest(1), DescriptionRequest(2),
                            DescriptionRequest(4), DescriptionRequest(8)>>
       /\ walk.described = {1, 3, 7}

C17_Witness ==
  /\ walk.pc = "done" /\ ~walk.timed_out
  /\ walk.named = {1, 3, 7} /\ walk.included = 1..DescMax
  /\ Len(walk.requests) = 4

\* C18: a PS reply for bank b updates exactly the X10 devices b*64 .. b*64+63,
\* device b*64+k taking the state at unit position k of the payload, and
\* leaves every other X10 device as it was.
C18_BankUpdate ==
  xlast.kind = "PS" =>
    LET b == ParseInt(<<xlast.data[1]>>)
    IN \A i \in X10Index :
         IF i \in (b * 64)..(b * 64 + 63)
           THEN LET state == Ord(xlast.data[2 + (i - b * 64)]) - Ord("0")
                IN /\ x10[i].status = (IF state = 0 THEN STATUS_OFF
                                       ELSE IF state = 1 THEN STATUS_ON
                                       ELSE STATUS_DIMMED)
                   /\ x10[i].level = (IF state = 0 THEN 0
                                      ELSE IF state = 1 THEN 100 ELSE state)
           ELSE x10[i] = xlast.prev[i]

\* C21: after an ST reply with raw value r is dispatched, the addressed keypad
\* (group 1) or thermostat (group 2) has temperature r - 40, the keypad's
\* temp_enabled is r # 0, the addressed zone (group 0) has temperature r - 60,
\* and the dispatch raised no error.
C21_TempReply ==
  stlast.kind = "ST" =>
    LET group == DigitValue(stlast.data[1])
        n == ParseInt(SubSeq(stlast.data, 2, 3))
        r == ParseInt(SubSeq(stlast.data, 4, 6))
    IN /\ ~unpack_raised
       /\ (group = 0 /\ n \in Zones) => zones[n].temp = r - 60
       /\ (group = 1 /\ n \in Keypads) =>
            ktemp[n].temp = r - 40 /\ (ktemp[n].temp_enabled <=> r # 0)
       /\ (group = 2 /\ n \in Thermostats) => therm[n].temp = r - 40

\* C22: a model constructed afresh and loaded from the saved state has every
\* non-timing field of every entity equal to that of the model that was saved:
\* area status, arm-up, alarm and last user; keypad area, last user number and
\* name and temperature; zone fields; thermostat temperature; X10 status and
\* level; the areas' zone and keypad members.
C22_SnapshotRoundTrip ==
  snapshot.done =>
    /\ \A a \in Areas :
         /\ snapshot.areas[a].status = areas[a].status
         /\ snapshot.areas[a].arm_up = areas[a].arm_up
         /\ snapshot.areas[a].alarm = areas[a].alarm
         /\ snapshot.areas[a].last_user_num = areas[a].last_user_num
    /\ \A k \in Keypads :
         /\ snapshot.keypads[k].area = keypads[k].area
         /\ snapshot.keypads[k].last_user_num = keypads[k].last_user_num
         /\ snapshot.keypads[k].last_user_name = keypads[k].last_user_name
         /\ snapshot.ktemp[k] = ktemp[k]
    /\ snapshot.zones = zones
    /\ snapshot.therm = therm
    /\ \A i \in X10Index :
         /\ snapshot.x10[i].status = x10[i].status
         /\ snapshot.x10[i].level = x10[i].level
    /\ snapshot.member_zone = member_zone
    /\ snapshot.member_keypad = member_keypad

\* A token names entity number n: 'k' names k, 'a-b' names a through b
Names(token, n) ==
  IF \E i \in 1..Len(token) : token[i] = "-"
    THEN ParseInt(SplitStart(token)) <= n /\ n <= ParseInt(SplitEnd(token))
    ELSE n = ParseInt(token)

\* C23: after construction entity n is included iff (the class has no include
\* list, or a token of the include list names n) and no token of the exclude
\* list names n.
C23_Inclusion ==
  incl.built =>
    \A n \in 1..IncludeMax :
      n \in incl.included <=>
        /\ ~incl.has_include \/ \E i \in 1..Len(incl.include) : Names(incl.include[i], n)
        /\ ~(incl.has_exclude /\ \E i \in 1..Len(incl.exclude) : Names(incl.exclude[i], n))

\* C24: once stop has been signalled no frame is transmitted and no entry is
\* put (back) on the outbound queue, and when the writer thread has ended the
\* outbound queue is empty.
C24_StopQuiesces ==
  /\ [][stopping =>
          /\ wire' = wire
          /\ \A c \in 1..Len(events) :
               Contains(queue_outgoing', c) => Contains(queue_outgoing, c)]_vars
  /\ []((stopping /\ writer.pc \in {"stopped", "dead"}) => queue_outgoing = <<>>)

\* C25: no zone is being assigned by two threads at once, and at most one
\* dispatch pass is running.
C25_SingleMutator ==
  /\ \A t, u \in PassThreads \cup {"scanner"} :
       t # u => Mutating(t) \cap Mutating(u) = {}
  /\ ~(mut["reader"].pc \in {"pass", "unpack"} /\ mut["app"].pc \in {"pass", "unpack"})

\* C26: the entity at position i of its class list has index i and number
\* i + 1, and a command issued by the entity at position i is handed to the
\* Elk object with the number i + 1 in its payload.
C26_IndexNumber ==
  /\ \A c \in DOMAIN nodes.lists : \A k \in 1..Len(nodes.lists[c]) :
       nodes.lists[c][k].index = k - 1 /\ nodes.lists[c][k].number = k
  /\ \A j \in 1..Len(nodes.issued) :
       ~nodes.issued[j].raised /\ ParseInt(nodes.issued[j].data) = nodes.issued[j].pos + 1

\* C27: while ElkRP is connected (an RP(1) or RP(2) frame has been dispatched
\* and no RP(0) since) the writer passes no frame to the transport, whether
\* the entry was queued before the pause or not.
C27_PausedWriterSilent == [][elkrp_connected => wire' = wire]_vars

\* The retries a command of the retry-budget specification was issued with,
\* and the number of retransmissions it is entitled to
IssuedRetries(c) == (CHOOSE t \in RetryTemplates : t.type = events[c].type).retries

Budget(c) == IF Len(events[c].expect) > 0 THEN IssuedRetries(c) ELSE 0

\* C28: with no reply and no flush, a command accepted with retries = r and a
\* non-empty expect is transmitted r + 1 times and no more, a command with
\* retries = 0 or an empty expect once; every reinsertion lowers the retry
\* count by one and sets the time to retry_delay from now, and an entry is
\* transmitted only when its time has come, time passing one tick at a time.
C28_RetryBudget ==
  /\ [](\A c \in 1..Len(events) : Count(wire, c) <= Budget(c) + 1)
  /\ [][\A c \in 1..Len(events) :
          /\ (Count(queue_outgoing', c) > Count(queue_outgoing, c) /\ Count(wire, c) > 0)
               => /\ events'[c].retries = events[c].retries - 1
                  /\ events'[c].time = events[c].retry_delay
                  /\ events[c].retry_delay > 0
          /\ Count(wire', c) > Count(wire, c) => events[c].time = 0
          /\ events'[c].time < events[c].time
               => events'[c].time = events[c].time - 1 /\ wire' = wire
          /\ events'[c].retries # events[c].retries
               => Count(queue_outgoing', c) > Count(queue_outgoing, c)]_vars
  /\ \A c \in 1..MaxCmds :
       (c \in Range(hist.accepted))
         ~> (c <= Len(events) /\ Count(wire, c) = Budget(c) + 1)

\* A command issued with RetryBudget retries and an expect has been
\* transmitted RetryBudget + 1 times and has no retry left, and a command
\* issued with retries and no expect has been transmitted once.
C28_Witness ==
  \E c, d \in 1..Len(events) :
    /\ events[c].type = "zs" /\ Count(wire, c) = RetryBudget + 1 /\ events[c].retries = 0
    /\ events[d].type = "ts" /\ Count(wire, d) = 1 /\ queue_outgoing = <<>>

\* C29: when a frame is put on the inbound queue, every pending outbound entry
\* whose non-empty expect equals the leading characters of the frame's
\* payload leaves the outbound queue, wherever it stands in the queue, and
\* every other entry stays.
C29_CancelMatching ==
  [][Len(frames') > Len(frames) =>
       queue_outgoing' =
         SelectSeq(queue_outgoing,
                   LAMBDA c : ~RetryMatches(events[c], frames'[Len(frames')]))]_vars

\* The dispatch pass handles the frame id in this step
DispatchStep(id) ==
  /\ reader.pc = "pass"
  /\ reader.snap # <<>>
  /\ Head(reader.snap) = id
  /\ reader' # reader

RequestNumber(request) == ParseInt(SubSeq(request, 3, 5))

\* The description loop ended for one of its three reasons: a reply for a
\* lower index than the one asked, no reply in time, or an index past the
\* capacity of the class
WalkEnded ==
  walk.pc = "done" =>
    \/ walk.timed_out
    \/ walk.desc_index > DescMax
    \/ /\ walk.replies # <<>>
       /\ walk.replies[Len(walk.replies)] < RequestNumber(walk.requests[Len(walk.requests)])

\* The requests ask for strictly increasing indices, at most one per entity
WalkIncreasing ==
  /\ \A j, k \in 1..Len(walk.requests) :
       j < k => RequestNumber(walk.requests[j]) < RequestNumber(walk.requests[k])
  /\ Len(walk.requests) <= DescMax

\* A reply naming r to a request for n with r >= n stores the name on entity r
WalkStored ==
  \A k \in 1..Len(walk.replies) :
    walk.replies[k] >= RequestNumber(walk.requests[k]) => walk.replies[k] \in walk.described

CRValue(data, g) == ParseInt(SubSeq(data, 3 + 6 * g, 7 + 6 * g))

CRFormat(data, g) == ParseInt(<<data[8 + 6 * g]>>)

\* C32: a dispatched CR reply with index 00 gives every setting k the value
\* and format of the k-th group; a CR reply with index n in 1..20 gives
\* setting n the value and format that follow the index and leaves every
\* other setting as it was; the dispatch raises no exception.
C32_ValueRead ==
  settings.data # <<>> =>
    LET n == ParseInt(SubSeq(settings.data, 1, 2))
    IN /\ ~settings.raised
       /\ \A k \in Settings :
            IF n = 0
              THEN settings.nodes[k] = [status |-> CRValue(settings.data, k - 1),
                                        format |-> CRFormat(settings.data, k - 1)]
            ELSE IF k = n
              THEN settings.nodes[k] = [status |-> CRValue(settings.data, 0),
                                        format |-> CRFormat(settings.data, 0)]
            ELSE settings.nodes[k] = settings.before[k]

\* C33: a dispatched frame calls the callback of a zone if and only if it
\* changed one of the zone's fields or its membership of an area; the same
\* report dispatched again calls no callback.
C33_CallbackIffChanged == zfired.unchanged = {} /\ zfired.silent = {}

\* C34 (as stated): the guard of the dispatcher is released at the end of
\* every pass, a pass that returned on an IE frame included: whenever the
\* reader is between two passes the guard is free, so the frame enqueued next
\* starts a pass.
C34_GuardReleased == reader.pc = "idle" => ~update_in_progress

\* C35 (as stated): the removal the writer makes of the entry it has just
\* transmitted never fails: the step after the transmission always finds the
\* entry in the outbound queue and goes on to the retry test.
C35_RemoveNeverFails ==
  [][writer.pc = "remove" /\ writer'.pc # "remove" => writer'.pc = "requeue"]_vars

\* C36 (as stated): the matching of an expected reply removes a pending
\* command from the outbound queue only after the command has been
\* transmitted at least once.
C36_CancelAfterSend ==
  [][(frames' # frames /\ queue_outgoing' # queue_outgoing)
       => Count(wire, Head(queue_outgoing)) >= 1]_vars

\* C37 (as stated): a ZS or ZD frame is taken from the inbound queue by the
\* scanner or by the dispatch pass, never by both: when the pass comes to
\* such a frame and removes it, the frame is still queued and the removal
\* does not fail.
C37_ConsumedOnce ==
  [][\A id \in 1..Len(frames) :
       (DispatchStep(id) /\ frames[id].type \in {"ZS", "ZD"}) => reader'.pc # "dead"]_vars

\* C38 (as stated): after a KA frame a keypad whose value is 0 is a member
\* of no area, and the areas whose updated_at is assigned and whose callback
\* is called are exactly the areas the frame assigns a keypad to: a value of
\* 0 touches no area.
C38_KeypadAreaZero ==
  alast.kind = "KA" =>
    LET assigned == [k \in Keypads |-> DataDehex(alast.data, TRUE)[k]]
    IN /\ \A k \in Keypads : assigned[k] = 0 => \A a \in Areas : ~member_keypad[a][k]
       /\ alast.notified = {assigned[k] : k \in Keypads} \ {0}

\* C39 (as stated): a description reply is applied only to the class the
\* scanner asked about: when get_description takes a reply whose type is that
\* of another class, no description is set on any entity and the traversal
\* index stays where it was; a reply of the class asked about sets no
\* description outside that class.
C39_ReplyOfRequestedClass ==
  [][(/\ scanner.pc = "wait" /\ scanner.wait = "SD"
      /\ scanner'.pc = "desc"
      /\ queue_incoming' # queue_incoming)
       => LET reply == ScanMatch("SD")
              asked == StageClass(scan_state)
          IN /\ \A c \in Classes \ {asked} : description'[c] = description[c]
             /\ SubSeq(frames[reply].data, 1, 2) # DescriptionType[asked]
                  => scanner'.desc_index = scanner.desc_index]_vars

\* C40 (as stated): with the transport open, no ElkRP session, no stop and
\* no overflow, every command accepted onto the outbound queue is eventually
\* transmitted: the writer does not sleep for ever on a queue that is not
\* empty.
C40_AcceptedTransmitted ==
  \A c \in 1..MaxCmds : (c \in Range(hist.accepted)) ~> (Count(wire, c) >= 1)

====
